---- MODULE Spec2Model ----
(***************************************************************************)
(* ShelfScan: the inference orchestration pipeline.                        *)
(*                                                                         *)
(*   - the Response Normalizer (_parse_json) over token texts,             *)
(*   - the three-stage debate (run_ai_debate) with the Critic chain,       *)
(*   - the two entry paths of the pipeline (scan_shelf and the webhook's   *)
(*     background task _run_whatsapp_pipeline) over the persisted tables,  *)
(*   - the nightly aggregation job (run_aggregation) and the store         *)
(*     registration (register_store), next to a scan that is at its        *)
(*     neighborhood update: the specification SpecAgg,                     *)
(*   - the helpers _calculate_health_score (in binary64 arithmetic) and    *)
(*     run_presenter called on their own: SpecHelpers,                     *)
(*   - _parse_json and the parsing of analyze_shelf_image on every short   *)
(*     token text: SpecNormalizer,                                         *)
(*   - two direct requests of one store on one event loop, the first       *)
(*     suspended at the speech request: SpecRace; the same with a second   *)
(*     request already answered and a third arriving: SpecThird,           *)
(*   - the pipeline whose started runs go on to their end: SpecLive.       *)
(*                                                                         *)
(* A provider text is a sequence of tokens: "FJ" is the fence ```json,     *)
(* "F" the fence ```, "NL" a newline, "SP" a blank, "LB"/"RB" the braces,  *)
(* "LS"/"RS" the brackets, "NUM"/"STR" a scalar literal, "X" a word that   *)
(* is no JSON, and a "k_..." token one complete "key": value member of an  *)
(* object (the separating commas go with the member). The member           *)
(* "k_note_fence" has a string value that consists of a fence ```; the     *)
(* member "k_note_empty" is the same member with the empty string.         *)
(***************************************************************************)
EXTENDS Integers, Sequences, FiniteSets, TLC

Take(s, n) == SubSeq(s, 1, IF Len(s) < n THEN Len(s) ELSE n)

Drop(s, n) == SubSeq(s, n + 1, Len(s))

\* ------------------------------------------------------------------ JSON
\* A JSON value of the kinds the pipeline reads: tagged, so that values of
\* different Python types stay comparable.
JStr(s) == [t |-> "str", s |-> s, n |-> 0, l |-> <<>>]

JNum(n) == [t |-> "num", s |-> <<>>, n |-> n, l |-> <<>>]

JNull == [t |-> "null", s |-> <<>>, n |-> 0, l |-> <<>>]

JTrue == [t |-> "bool", s |-> <<>>, n |-> 1, l |-> <<>>]

JList(l) == [t |-> "list", s |-> <<>>, n |-> 0, l |-> l]

JObj == [t |-> "obj", s |-> <<>>, n |-> 0, l |-> <<>>]

\* Python truthiness of a JSON value (`not v`).
Truthy(v) ==
    CASE v.t = "str" -> v.s /= <<>>
      [] v.t = "list" -> v.l /= <<>>
      [] v.t = "num" -> v.n /= 0
      [] v.t = "bool" -> v.n /= 0
      [] v.t = "null" -> FALSE
      [] OTHER -> TRUE

\* dict.get(key, default) on a mapping (a function from keys to values).
Get(d, key, default) == IF key \in DOMAIN d THEN d[key] ELSE default

EmptyDict == [k \in {} |-> JNull]

\* d with key set to v (a later duplicate member wins, as in json.loads).
Put(d, key, v) == [k \in (DOMAIN d) \cup {key} |-> IF k = key THEN v ELSE d[k]]

\* The sample recommendation a Decider reply carries.
HindiText == <<"Namaskar", "bhai!", "Aaj", "Tata Salt", "mangaiye">>

MemberTokens ==
    {"k_a", "k_conf", "k_hindi", "k_hindi_empty", "k_hindi_blank", "k_hindi_null",
     "k_note_fence", "k_note_empty"}

MemberKey(tok) ==
    CASE tok = "k_a" -> "a"
      [] tok = "k_conf" -> "confidence_score"
      [] tok \in {"k_note_fence", "k_note_empty"} -> "note"
      [] OTHER -> "final_hindi_text"

MemberVal(tok) ==
    CASE tok = "k_a" -> JNum(1)
      [] tok = "k_conf" -> JNum(91)
      [] tok = "k_hindi" -> JStr(HindiText)
      [] tok = "k_hindi_empty" -> JStr(<<>>)
      [] tok = "k_hindi_blank" -> JStr(<<" ">>)
      [] tok = "k_note_fence" -> JStr(<<"F">>)
      [] tok = "k_note_empty" -> JStr(<<>>)
      [] OTHER -> JNull

IsWs(tok) == tok \in {"NL", "SP"}

\* ------------------------------------------------------------- json.loads
\* The index of the first token at or after i that is no whitespace
\* (Len(s) + 1 when there is none).
RECURSIVE SkipWs(_, _)
SkipWs(s, i) == IF i <= Len(s) /\ IsWs(s[i]) THEN SkipWs(s, i + 1) ELSE i

\* Recursive descent over the tokens: the index just after the value that
\* starts at i (after whitespace), 0 when no value starts there.
\* mode "val": one value; "obj": the members after "{"; "arr": the
\* elements after "[".
RECURSIVE Scan(_, _, _)
Scan(s, i, mode) ==
    LET j == SkipWs(s, i) IN
    IF j > Len(s) THEN 0
    ELSE IF mode = "val" THEN
        CASE s[j] = "LB" -> Scan(s, j + 1, "obj")
          [] s[j] = "LS" -> Scan(s, j + 1, "arr")
          [] s[j] \in {"NUM", "STR"} -> j + 1
          [] OTHER -> 0
    ELSE IF mode = "obj" THEN
        CASE s[j] = "RB" -> j + 1
          [] s[j] \in MemberTokens -> Scan(s, j + 1, "obj")
          [] s[j] = "LB" ->
                LET e == Scan(s, j + 1, "obj") IN
                IF e = 0 THEN 0 ELSE Scan(s, e, "obj")
          [] OTHER -> 0
    ELSE
        IF s[j] = "RS" THEN j + 1
        ELSE LET e == Scan(s, j, "val") IN
             IF e = 0 THEN 0 ELSE Scan(s, e, "arr")

\* json.loads accepts s: one value, whitespace around it, nothing else.
JsonValid(s) ==
    LET e == Scan(s, 1, "val") IN e /= 0 /\ SkipWs(s, e) > Len(s)

\* The members of the outermost object of a valid text, in order, as a
\* mapping: a nested object is the value of the member "nested".
RECURSIVE Members(_, _, _, _)
Members(s, i, depth, d) ==
    IF i > Len(s) THEN d
    ELSE CASE s[i] = "LB" ->
                Members(s, i + 1, depth + 1,
                        IF depth = 1 THEN Put(d, "nested", JObj) ELSE d)
           [] s[i] = "RB" -> Members(s, i + 1, depth - 1, d)
           [] s[i] \in MemberTokens /\ depth = 1 ->
                Members(s, i + 1, depth, Put(d, MemberKey(s[i]), MemberVal(s[i])))
           [] OTHER -> Members(s, i + 1, depth, d)

\* json.loads(s) of a valid text: a mapping for an object, and the other
\* kinds of value (a list, a number, a string) as themselves.
JsonLoads(s) ==
    LET j == SkipWs(s, 1) IN
    CASE s[j] = "LB" -> [kind |-> "dict", d |-> Members(s, j, 0, EmptyDict)]
      [] s[j] = "LS" -> [kind |-> "list", d |-> EmptyDict]
      [] s[j] = "NUM" -> [kind |-> "num", d |-> EmptyDict]
      [] OTHER -> [kind |-> "str", d |-> EmptyDict]

\* ------------------------------------------------------------ _parse_json
RECURSIVE LStrip(_)
LStrip(s) == IF s /= <<>> /\ IsWs(Head(s)) THEN LStrip(Tail(s)) ELSE s

RECURSIVE RStrip(_)
RStrip(s) ==
    IF s /= <<>> /\ IsWs(s[Len(s)]) THEN RStrip(SubSeq(s, 1, Len(s) - 1)) ELSE s

\* str.strip()
Strip(s) == RStrip(LStrip(s))

\* re.sub(fence + "\n?", "", s): every fence goes, with the one newline
\* that directly follows it; the pattern does not know about JSON strings,
\* so a fence inside a string value goes as well.
Kept(tok) == tok /= ""

ReSubFence(fence, s) ==
    LET gone(i) == \/ s[i] = fence
                   \/ (s[i] = "NL" /\ i > 1 /\ s[i - 1] = fence)
        sub(tok) == IF tok = "k_note_fence" /\ fence = "F"
                    THEN "k_note_empty" ELSE tok
    IN  SelectSeq([i \in 1..Len(s) |-> IF gone(i) THEN "" ELSE sub(s[i])], Kept)

\* BraceMatch as re.match would do it: only a text that begins with "{"
\* matches.
BraceMatchAtStart(s) ==
    LET closes == {i \in 1..Len(s) : s[i] = "RB"}
    IN  IF s = <<>> \/ s[1] /= "LB" \/ closes = {} THEN <<>>
        ELSE SubSeq(s, 1, CHOOSE i \in closes : \A k \in closes : i >= k)

\* re.search(r'\{.*\}', s, re.DOTALL): greedy, from the first "{" to the
\* last "}" after it; <<>> when there is no match.
BraceMatch(s) ==
    LET opens == {i \in 1..Len(s) : s[i] = "LB"}
        closes == {i \in 1..Len(s) : s[i] = "RB"}
    IN  IF opens = {} THEN <<>>
        ELSE LET a == CHOOSE i \in opens : \A k \in opens : i <= k
                 after == {i \in closes : i > a}
             IN  IF after = {} THEN <<>>
                 ELSE LET b == CHOOSE i \in after : \A k \in after : i >= k
                      IN  SubSeq(s, a, b)

RawLimit == 500

\* ParseMarker with the whole text as the excerpt.
ParseMarkerUntruncated(s) ==
    [kind |-> "dict",
     d |-> [k \in {"raw", "parse_error"} |-> IF k = "raw" THEN JStr(s) ELSE JTrue]]

\* {"raw": text[:500], "parse_error": True}
ParseMarker(s) ==
    [kind |-> "dict",
     d |-> [k \in {"raw", "parse_error"} |->
              IF k = "raw" THEN JStr(Take(s, RawLimit)) ELSE JTrue]]

_parse_json(text) ==
    LET t1 == ReSubFence("FJ", Strip(text))
        t2 == Strip(ReSubFence("F", t1))
        m == BraceMatch(t2)
    IN  IF JsonValid(t2) THEN JsonLoads(t2)
        ELSE IF m /= <<>> /\ JsonValid(m) THEN JsonLoads(m)
        ELSE ParseMarker(t2)

IsMarker(parsed) == parsed.kind = "dict" /\ "parse_error" \in DOMAIN parsed.d

\* ------------------------------------------------------- provider replies
\* What one call to an externally hosted provider can come back with: it
\* raises, it times out, it answers with a non-success status, or it
\* answers with a text.
Raised == [kind |-> "exception", text |-> <<>>]

TimedOut == [kind |-> "timeout", text |-> <<>>]

Non200 == [kind |-> "non200", text |-> <<>>]

Ok(text) == [kind |-> "ok", text |-> text]

\* Reply texts: a fenced object, an object inside noise, text no strategy
\* parses, valid JSON that is no object.
TextFenced == <<"FJ", "NL", "LB", "k_conf", "RB", "NL", "F">>

TextPlain == <<"X", "LB", "k_a", "RB">>

TextGarbage == <<"X", "X">>

TextList == <<"LS", "NUM", "RS">>

TextHindi == <<"LB", "k_conf", "k_hindi", "RB">>

TextHindiEmpty == <<"LB", "k_hindi_empty", "RB">>

TextHindiNull == <<"FJ", "LB", "k_hindi_null", "RB", "F">>

TextHindiBlank == <<"LB", "k_hindi_blank", "RB">>

\* The replies of a chat-completions provider (httpx): Critic candidates.
HttpReplies == {Raised, TimedOut, Non200, Ok(TextFenced), Ok(TextGarbage), Ok(TextList)}

\* The replies of the generative-model client: Presenter, Critic fallback.
GenaiReplies == {Raised, Ok(TextFenced), Ok(TextGarbage), Ok(TextList)}

\* The replies of the Decider's call.
DeciderReplies ==
    {Raised, Ok(TextHindi), Ok(TextPlain), Ok(TextHindiEmpty), Ok(TextHindiNull),
     Ok(TextHindiBlank), Ok(TextGarbage), Ok(TextList)}

\* --------------------------------------------------------------- debate
\* Optional[dict]: None, falsy.
None ==
    [agent |-> "None", model |-> "None", type |-> "None", output |-> EmptyDict,
     confidence |-> JNull, final_hindi_text |-> JNull, error |-> FALSE]

\* A stage record {"agent", "model", "type", "output", "confidence", ...}.
StageRecord(agent, model, type, output, confidence, hindi, error) ==
    [agent |-> agent, model |-> model, type |-> type, output |-> output,
     confidence |-> confidence, final_hindi_text |-> hindi, error |-> error]

\* The body of the try block of a stage: the call, _parse_json of its
\* text and parsed.get(...). It raises when the call does, and when the
\* parsed value is no mapping (a list, a number: no .get).
TryRaises(reply) ==
    reply.kind \in {"exception", "timeout"}
    \/ (reply.kind = "ok" /\ _parse_json(reply.text).kind /= "dict")

IsUrgent(prod) == prod.stock_level \in {"critical", "low"}

FallbackRestocks == 5

FallbackUnits == 6

FallbackCost == 150

\* _fallback_presenter without the cut of the list.
FallbackPresenterUncut(vision_data) ==
    LET urgents == SelectSeq(vision_data.products, IsUrgent)
    IN  [k \in {"priority_restocks", "confidence_score", "reasoning"} |->
            CASE k = "priority_restocks" ->
                    JList([i \in 1..Len(urgents) |->
                             [product |-> urgents[i].name,
                              current_stock |-> urgents[i].stock_level,
                              units_to_order |-> FallbackUnits,
                              estimated_cost_inr |-> FallbackCost]])
              [] k = "confidence_score" -> JNum(58)
              [] OTHER -> JStr(<<"Fallback", "check Gemini API key">>)]

_fallback_presenter(vision_data) ==
    LET urgents == SelectSeq(vision_data.products, IsUrgent)
        top == Take(urgents, FallbackRestocks)
    IN  [k \in {"priority_restocks", "confidence_score", "reasoning"} |->
            CASE k = "priority_restocks" ->
                    JList([i \in 1..Len(top) |->
                             [product |-> top[i].name,
                              current_stock |-> top[i].stock_level,
                              units_to_order |-> FallbackUnits,
                              estimated_cost_inr |-> FallbackCost]])
              [] k = "confidence_score" -> JNum(58)
              [] OTHER -> JStr(<<"Fallback", "check Gemini API key">>)]

\* ", ".join(names)
RECURSIVE Join(_)
Join(names) ==
    IF names = <<>> THEN <<>>
    ELSE IF Len(names) = 1 THEN names
    ELSE <<Head(names), ",">> \o Join(Tail(names))

UrgentShown == 3

\* ", ".join(urgent[:3]), or the placeholder when that is empty.
UrgentItems(vision_data) ==
    LET items == Join(Take(vision_data.top_restock_urgent, UrgentShown))
    IN  IF items /= <<>> THEN items ELSE <<"kuch zaruri items">>

_fallback_decider(vision_data, store_info) ==
    [k \in {"final_action_plan", "total_spend_today_inr", "confidence_score",
            "final_hindi_text", "summary_english"} |->
        CASE k = "final_action_plan" -> JList(<<>>)
          [] k = "total_spend_today_inr" -> JNum(0)
          [] k = "confidence_score" -> JNum(60)
          [] k = "final_hindi_text" ->
                JStr(<<"Namaskar", store_info.owner_name, "Aapki shelf mein">>
                     \o UrgentItems(vision_data)
                     \o <<"ka stock khatam ho raha hai. Aaj hi mangaiye!">>)
          [] OTHER -> JStr(<<"Restock urgent items identified by vision analysis.">>)]

run_presenter(vision_data, store_info, reply) ==
    IF TryRaises(reply)
    THEN StageRecord("Gemini 1.5 Pro", "gemini-1.5-pro", "presenter",
                     _fallback_presenter(vision_data), JNum(60), JNull, TRUE)
    ELSE LET parsed == _parse_json(reply.text).d
         IN  StageRecord("Gemini 1.5 Pro", "gemini-1.5-pro", "presenter", parsed,
                         Get(parsed, "confidence_score", JNum(82)), JNull, FALSE)

\* HttpCritic with a test of the parse-failure marker added: a reply that
\* normalizes to the marker counts as a failure of the candidate.
HttpCriticRejectsMarker(configured, reply, agent, model, default) ==
    IF ~configured THEN None
    ELSE IF reply.kind /= "ok" \/ TryRaises(reply) THEN None
    ELSE LET parsed == _parse_json(reply.text).d
         IN  IF IsMarker(_parse_json(reply.text)) THEN None
             ELSE StageRecord(agent, model, "critic", parsed,
                              Get(parsed, "confidence_score", JNum(default)), JNull, FALSE)

\* The three chat-completions candidates share one shape: no credential,
\* None; status 200 and a mapping, the record; anything else, None.
HttpCritic(configured, reply, agent, model, default) ==
    IF ~configured THEN None
    ELSE IF reply.kind /= "ok" \/ TryRaises(reply) THEN None
    ELSE LET parsed == _parse_json(reply.text).d
         IN  StageRecord(agent, model, "critic", parsed,
                         Get(parsed, "confidence_score", JNum(default)), JNull, FALSE)

run_critic_gpt4o(keys, reply) ==
    HttpCritic(keys.OPENAI_API_KEY, reply, "GPT-4o Mini", "gpt-4o-mini", 80)

run_critic_groq(keys, reply) ==
    HttpCritic(keys.GROQ_API_KEY, reply, "Groq LLaMA-3.1-70B", "llama-3.1-70b-versatile", 76)

run_critic_together(keys, reply) ==
    HttpCritic(keys.TOGETHER_API_KEY, reply, "Together Mixtral-8x7B",
               "mixtral-8x7b-instruct", 74)

FallbackConfidence == 55

\* The default critique of the except branch.
FallbackCritique ==
    [k \in {"accepted", "challenged", "rejected", "minimum_viable_restock",
            "risk_level", "confidence_score", "critique_summary"} |->
        CASE k \in {"accepted", "challenged", "rejected", "minimum_viable_restock"} ->
                JList(<<>>)
          [] k = "risk_level" -> JStr(<<"medium">>)
          [] k = "confidence_score" -> JNum(FallbackConfidence)
          [] OTHER -> JStr(<<"Fallback critique">>)]

\* run_critic_gemini_fallback whose except branch reports the confidence
\* of the success branch.
run_critic_gemini_fallback_conf70(reply) ==
    IF TryRaises(reply)
    THEN StageRecord("Gemini Flash (Critic Fallback)", "gemini-1.5-flash", "critic",
                     FallbackCritique, JNum(70), JNull, TRUE)
    ELSE LET parsed == _parse_json(reply.text).d
         IN  StageRecord("Gemini Flash (Critic Fallback)", "gemini-1.5-flash", "critic",
                         parsed, Get(parsed, "confidence_score", JNum(70)), JNull, FALSE)

run_critic_gemini_fallback(reply) ==
    IF TryRaises(reply)
    THEN StageRecord("Gemini Flash (Critic Fallback)", "gemini-1.5-flash", "critic",
                     FallbackCritique, JNum(FallbackConfidence), JNull, TRUE)
    ELSE LET parsed == _parse_json(reply.text).d
         IN  StageRecord("Gemini Flash (Critic Fallback)", "gemini-1.5-flash", "critic",
                         parsed, Get(parsed, "confidence_score", JNum(70)), JNull, FALSE)

run_decider(vision_data, store_info, reply) ==
    IF TryRaises(reply)
    THEN LET fb == _fallback_decider(vision_data, store_info)
         IN  StageRecord("Gemini 1.5 Pro", "gemini-1.5-pro", "decider", fb, JNum(60),
                         Get(fb, "final_hindi_text", JStr(<<>>)), TRUE)
    ELSE LET parsed == _parse_json(reply.text).d
         IN  StageRecord("Gemini 1.5 Pro", "gemini-1.5-pro", "decider", parsed,
                         Get(parsed, "confidence_score", JNum(90)),
                         Get(parsed, "final_hindi_text", JStr(<<>>)), FALSE)

\* One entry of `rounds`: whose record it is and the stage role it is
\* tagged with. (The serialized output, the reasoning line and the
\* confidence ride along in the code; no step after the debate reads them,
\* they stay with the stage records p, critic and d here.)
Round(rec, role) == [agent |-> rec.agent, model |-> rec.model, type |-> role]

\* The last-resort sentence.
SynthesizedSentence(vision_data, store_info) ==
    JStr(<<"Namaskar", store_info.owner_name, "ShelfScan AI ne aapki shelf check ki. Aaj">>
         \o UrgentItems(vision_data)
         \o <<"zaroor mangaiye">>)

\* FinalHindi without the last-resort sentence.
FinalHindiNoLastResort(rec, vision_data, store_info) ==
    LET f1 == rec.final_hindi_text
    IN  IF ~Truthy(f1) THEN Get(rec.output, "final_hindi_text", JStr(<<>>)) ELSE f1

\* final_hindi of run_ai_debate, from the Decider's record.
FinalHindi(rec, vision_data, store_info) ==
    LET f1 == rec.final_hindi_text
        f2 == IF ~Truthy(f1) THEN Get(rec.output, "final_hindi_text", JStr(<<>>)) ELSE f1
    IN  IF ~Truthy(f2) THEN SynthesizedSentence(vision_data, store_info) ELSE f2

\* ------------------------------------------------------- vision analysis
Product(name, category, level, facing) ==
    [name |-> name, category |-> category, stock_level |-> level,
     facing_correct |-> facing]

\* _fallback_vision_data: the empty-but-valid structure.
_fallback_vision_data ==
    [products |-> <<>>, critical_count |-> 0, low_count |-> 0,
     top_restock_urgent |-> <<>>]

\* _fallback_vision_data(image_url) as the mapping it is.
FallbackVisionJson ==
    [k \in {"products", "critical_count", "low_count", "top_restock_urgent", "image_url"} |->
        CASE k \in {"products", "top_restock_urgent"} -> JList(<<>>)
          [] k = "image_url" -> JStr(<<"image_url">>)
          [] OTHER -> JNum(0)]

\* What the pipeline reads of a mapping that analyze_shelf_image returned:
\* vision_data.get("products"), .get("critical_count", 0),
\* .get("low_count", 0), .get("top_restock_urgent", []).
VisionView(dict) ==
    [products |-> Get(dict, "products", JList(<<>>)).l,
     critical_count |-> Get(dict, "critical_count", JNum(0)).n,
     low_count |-> Get(dict, "low_count", JNum(0)).n,
     top_restock_urgent |-> Get(dict, "top_restock_urgent", JList(<<>>)).l]

\* analyze_shelf_image for a reply with the text text: the fences are
\* removed and json.loads is tried. A mapping gets the key image_url and is
\* returned; on any other value the assignment of the key raises TypeError,
\* which leaves as "Gemini Vision analysis failed". On JSONDecodeError the
\* text from the first "{" to the last "}" is tried, and failing that the
\* fallback structure is returned.
analyze_shelf_image(text) ==
    LET raw_text == Strip(ReSubFence("F", ReSubFence("FJ", Strip(text))))
        json_match == BraceMatch(raw_text)
    IN  IF JsonValid(raw_text)
        THEN IF JsonLoads(raw_text).kind = "dict"
             THEN [kind |-> "dict",
                   d |-> Put(JsonLoads(raw_text).d, "image_url", JStr(<<"image_url">>))]
             ELSE [kind |-> "raise", d |-> EmptyDict]
        ELSE IF json_match /= <<>> /\ JsonValid(json_match)
             THEN JsonLoads(json_match)
             ELSE [kind |-> "dict", d |-> FallbackVisionJson]

\* A shelf with one critical item, one badly faced item and one low item.
ShelfVision ==
    [products |-> <<Product("Tata Salt", "Staples", "critical", TRUE),
                    Product("Maggi", "Noodles", "ok", FALSE),
                    Product("Parle-G", "Biscuits", "low", TRUE)>>,
     critical_count |-> 1, low_count |-> 1,
     top_restock_urgent |-> <<"Tata Salt", "Parle-G">>]

\* What analyze_shelf_image can come back with: it raises, or it returns
\* one of these structures.
VisionResults == {_fallback_vision_data, ShelfVision}

\* ------------------------------------------- float arithmetic (binary64)
\* Python's float is the IEEE-754 binary64 format: 53 significant bits, every
\* operation rounded to nearest, ties to even. A number is kept as a sequence
\* of bits, bits[1] of weight 2^exp and bits[i] of weight 2^(exp - i + 1);
\* carries are propagated over limbs of LimbBits bits.
Precision == 53

LimbBits == 10

LimbBase == 2 ^ LimbBits

\* Limbs of the fraction produced by the long division: enough for 53
\* significant bits, a guard bit and more, for any quotient above 2^-10.
FractionLimbs == 7

Zeros(n) == [i \in 1..n |-> 0]

FloatZero == [exp |-> 0, bits |-> Zeros(Precision)]

\* The value of a bit sequence read as a binary numeral.
RECURSIVE BinValue(_)
BinValue(bits) ==
    IF Len(bits) = 0 THEN 0
    ELSE 2 * BinValue(SubSeq(bits, 1, Len(bits) - 1)) + bits[Len(bits)]

\* A bit sequence cut into limbs (zeros fill the last one).
ToLimbs(bits) ==
    LET count == (Len(bits) + LimbBits - 1) \div LimbBits
        bit(i) == IF i <= Len(bits) THEN bits[i] ELSE 0
    IN  [k \in 1..count |->
            BinValue([j \in 1..LimbBits |-> bit(LimbBits * (k - 1) + j)])]

\* The bits of a sequence of limbs.
ToBits(limbs) ==
    [i \in 1..(LimbBits * Len(limbs)) |->
        (limbs[((i - 1) \div LimbBits) + 1]
            \div (2 ^ (LimbBits - 1 - ((i - 1) % LimbBits)))) % 2]

\* The bits m plus one unit in the last place (m is not all ones).
Increment(m) ==
    LET k == CHOOSE i \in 1..Len(m) :
                 m[i] = 0 /\ \A j \in (i + 1)..Len(m) : m[j] = 1
    IN  [i \in 1..Len(m) |-> IF i < k THEN m[i] ELSE IF i = k THEN 1 ELSE 0]

\* An exact binary number rounded to a float: round to nearest, ties to even.
RoundToFloat(x) ==
    LET n == Len(x.bits)
        ones == {i \in 1..n : x.bits[i] = 1}
        lead == CHOOSE i \in ones : \A j \in ones : i <= j
        at(i) == IF lead + i - 1 <= n THEN x.bits[lead + i - 1] ELSE 0
        m == [i \in 1..Precision |-> at(i)]
        guard == at(Precision + 1)
        sticky == \E i \in ones : i > lead + Precision
        up == guard = 1 /\ (sticky \/ m[Precision] = 1)
        e == x.exp - (lead - 1)
    IN  IF ones = {} THEN FloatZero
        ELSE IF ~up THEN [exp |-> e, bits |-> m]
        ELSE IF \A i \in 1..Precision : m[i] = 1
             THEN [exp |-> e + 1,
                   bits |-> [i \in 1..Precision |-> IF i = 1 THEN 1 ELSE 0]]
        ELSE [exp |-> e, bits |-> Increment(m)]

\* The first n limbs of r / b (r < b), then one sticky limb for what is left.
RECURSIVE DivLimbs(_, _, _)
DivLimbs(r, b, n) ==
    IF n = 0 THEN << IF r = 0 THEN 0 ELSE 1 >>
    ELSE <<(r * LimbBase) \div b>> \o DivLimbs((r * LimbBase) % b, b, n - 1)

\* a / b of two ints (true division): the correctly rounded quotient.
TrueDiv(a, b) ==
    RoundToFloat([exp |-> LimbBits - 1,
                  bits |-> ToBits(<<a \div b>>
                                  \o DivLimbs(a % b, b, FractionLimbs))])

\* The limbs of limbs * n, from limb i down, with the carry so far.
RECURSIVE MulFrom(_, _, _, _)
MulFrom(limbs, n, i, carry) ==
    IF i = 0 THEN <<carry>>
    ELSE MulFrom(limbs, n, i - 1, (limbs[i] * n + carry) \div LimbBase)
         \o <<(limbs[i] * n + carry) % LimbBase>>

\* x * n for a float x and a small int n (n converts to a float exactly).
FloatMul(x, n) ==
    LET limbs == ToLimbs(x.bits)
    IN  RoundToFloat([exp |-> x.exp + LimbBits,
                      bits |-> ToBits(MulFrom(limbs, n, Len(limbs), 0))])

\* The limbs of a + b, from limb i down, with the carry so far.
RECURSIVE AddFrom(_, _, _, _)
AddFrom(a, b, i, carry) ==
    IF i = 0 THEN <<carry>>
    ELSE AddFrom(a, b, i - 1, (a[i] + b[i] + carry) \div LimbBase)
         \o <<(a[i] + b[i] + carry) % LimbBase>>

\* x + y for two floats.
FloatAdd(x, y) ==
    LET top == IF x.exp >= y.exp THEN x.exp ELSE y.exp
        low == IF x.exp >= y.exp THEN y.exp ELSE x.exp
        n == Precision + (top - low)
        Align(f) == ToLimbs([i \in 1..n |->
                        LET j == i - (top - f.exp)
                        IN  IF j \in 1..Precision THEN f.bits[j] ELSE 0])
    IN  RoundToFloat([exp |-> top + LimbBits,
                      bits |-> ToBits(AddFrom(Align(x), Align(y),
                                              Len(Align(x)), 0))])

\* int(x) for a float x >= 0: the integer part.
IntOf(x) == IF x.exp < 0 THEN 0 ELSE BinValue(SubSeq(x.bits, 1, x.exp + 1))

\* int(((ok / total) * 70) + ((facing_ok / total) * 30)), clamped to 0..100;
\* 0 without products.
_calculate_health_score(vision_data) ==
    LET products == vision_data.products
        total == Len(products)
        ok == Cardinality({i \in 1..total : products[i].stock_level \in {"ok", "overstocked"}})
        facing_ok == Cardinality({i \in 1..total : products[i].facing_correct})
        score == IntOf(FloatAdd(FloatMul(TrueDiv(ok, total), 70),
                                FloatMul(TrueDiv(facing_ok, total), 30)))
    IN  IF products = <<>> THEN 0
        ELSE IF score > 100 THEN 100 ELSE IF score < 0 THEN 0 ELSE score

\* ------------------------------------------------------- speech synthesis
VoiceUrl == "https://res.cloudinary.com/shelfscan/audio.mp3"

\* voice_url, voice_duration = "", 0
NoVoice == [audio_url |-> "", duration |-> 0]

\* generate_hindi_voice: every failure inside it (the provider call, a
\* non-success status, the audio upload) is caught and becomes ("", 0).
\* tts is the provider's reply, uploaded whether upload_audio succeeds.
generate_hindi_voice(hindi_text, tts, uploaded) ==
    IF tts.kind /= "ok" \/ ~uploaded
    THEN NoVoice
    ELSE LET est == (Len(hindi_text.s) * 60) \div 150
         IN  [audio_url |-> VoiceUrl, duration |-> IF est > 5 THEN est ELSE 5]

\* The line generate_hindi_voice prints when it catches a failure.
VoiceFailure(tts, uploaded) ==
    IF tts.kind \in {"exception", "timeout"} THEN "ElevenLabs request failed"
    ELSE IF tts.kind = "non200" THEN "ElevenLabs API error"
    ELSE IF ~uploaded THEN "Cloudinary audio upload failed"
    ELSE ""

TtsReplies == {Raised, TimedOut, Non200, Ok(<<"audio/mpeg">>)}

\* ------------------------------------------------------------------ state
MaxRequests == 1

VARIABLES
    settings,            \* config.settings: which credentials are configured
    stores,              \* table stores: id -> row
    scans,               \* table scans: the row of scan id i is scans[i]
    detected_products,   \* table detected_products
    debate_rounds,       \* table debate_rounds
    voice_notes,         \* table voice_notes
    whatsapp_messages,   \* table whatsapp_messages (the audit trail)
    neighborhood_demand, \* table neighborhood_demand
    outbox,              \* the outbound messages handed to the messaging channel
    nreq,                \* requests received so far
    path,                \* the entry path of the current request
    pc,                  \* the statement the current request is at
    req,                 \* the current request's parameters
    store,               \* local `store`
    scan_id,             \* local `scan_id` (0: not in locals())
    vision_data,         \* local `vision_data`
    round_i,             \* how many of debate_result["rounds"] are inserted
    debate_result,       \* local `debate_result`
    voice,               \* locals `voice_url, voice_duration`
    voice_err,           \* what generate_hindi_voice caught and printed
    exc,                 \* the exception the pipeline's except clause caught
    swallowed,           \* the except clause's own update raised (except: pass)
    response,            \* what the synchronous caller received
    p, critic, d,        \* run_ai_debate's stage records
    calls,               \* the provider calls run_ai_debate has made, in order
    today,               \* the current date, as a day number (day 1 is a Monday)
    agg,                 \* the aggregation jobs: each one's position and locals
    reg,                 \* the registration request: its position and locals
    fn_arg,              \* the argument of a helper function called on its own
    fn_ret,              \* what that call returned (<<>>: not called yet)
    parked               \* the locals of a second request, suspended at an await

tables ==
    <<stores, scans, detected_products, debate_rounds, voice_notes,
      whatsapp_messages, neighborhood_demand>>

debate_locals == <<p, critic, d, calls>>

\* What the scan pipelines neither read nor write.
aside == <<today, agg, reg, fn_arg, fn_ret, parked>>

vars ==
    <<settings, stores, scans, detected_products, debate_rounds, voice_notes,
      whatsapp_messages, neighborhood_demand, outbox, nreq, path, pc, req, store,
      scan_id, vision_data, round_i, debate_result, voice, voice_err, exc,
      swallowed, response, p, critic, d, calls, today, agg, reg, fn_arg, fn_ret,
      parked>>

StoreId == "s1"

StoreNumber == "+919876543210"

OtherNumber == "+919000000000"

Pincode == "110001"

City == "Delhi"

\* The row register_store writes, and _init_neighborhood's row for it.
RegisteredStore ==
    [id |-> StoreId, owner_name |-> "Ramesh", whatsapp_number |-> StoreNumber,
     pincode |-> Pincode, city |-> City, total_scans |-> 0,
     shelf_health_score |-> 0]

\* json.dumps(value): the serialized form of a value.
JsonDumps(value) == [json |-> value]

\* The two kinds of list the table's JSON columns hold: a list of names (in
\* no order: it is built with list(set(...))) and a list of {name, count}
\* objects in most_common order. The empty list is both.
NameList(names) == [names |-> names, counts |-> <<>>]

CountList(counts) == [names |-> {}, counts |-> counts]

\* The row _init_neighborhood inserts; `{}` is the empty sequence here.
InitialRow(pincode, city, day) ==
    [pincode |-> pincode, city |-> city, week_start |-> day,
     total_stores_scanned |-> 1,
     top_categories |-> JsonDumps(NameList({})),
     stockout_products |-> JsonDumps(NameList({})),
     demand_signals |-> JsonDumps(<<>>)]

InitialDemand == InitialRow(Pincode, City, 1)

NoStore ==
    [id |-> "", owner_name |-> "", whatsapp_number |-> "", pincode |-> "",
     city |-> "", total_scans |-> 0, shelf_health_score |-> 0]

NoDebate == [rounds |-> <<>>, final_recommendation |-> JNull]

NoResponse == [status |-> 0, body |-> "", detail |-> ""]

NoRequest == [store_id |-> "", from_number |-> "", media_url |-> "",
                 num_media |-> 0]

Settings ==
    [OPENAI_API_KEY : BOOLEAN, GROQ_API_KEY : BOOLEAN, TOGETHER_API_KEY : BOOLEAN,
     TWILIO : BOOLEAN]

\* The aggregation jobs that can be running: the scheduled one and one
\* started by hand (python aggregation_service.py).
Aggregators == {1, 2}

\* An aggregation job that has not started: its position and its locals
\* (record holds the record of the group at hand, if it is computed), with
\* the groups it has upserted and those whose aggregation failed.
IdleJob ==
    [pc |-> "idle", week_start |-> 0, store_ids |-> {}, groups |-> <<>>, g |-> 0,
     record |-> <<>>, existing |-> <<>>, upserted |-> {}, failed |-> {}]

\* StoreRegister: the registration form (no request yet: the empty one).
NoRegistration == [owner_name |-> "", whatsapp_number |-> "", pincode |-> "", city |-> ""]

IdleRegistration == [pc |-> "idle", data |-> NoRegistration, store_id |-> "", status |-> 0]

\* The locals of a request handler, as a record: here of no request.
NoRun ==
    [path |-> "", pc |-> "done", req |-> NoRequest, store |-> NoStore, scan_id |-> 0,
     vision_data |-> _fallback_vision_data, round_i |-> 0, debate_result |-> NoDebate,
     voice |-> NoVoice, voice_err |-> "", exc |-> "", swallowed |-> FALSE,
     response |-> NoResponse, p |-> None, critic |-> None, d |-> None, calls |-> <<>>]

\* Nothing has been requested yet: the tables hold the first store's
\* registration only.
Quiet ==
    /\ stores = [s \in {StoreId} |-> RegisteredStore]
    /\ scans = <<>>
    /\ detected_products = <<>>
    /\ debate_rounds = <<>>
    /\ voice_notes = <<>>
    /\ whatsapp_messages = <<>>
    /\ neighborhood_demand = <<InitialDemand>>
    /\ outbox = <<>>
    /\ nreq = 0
    /\ path = ""
    /\ pc = "idle"
    /\ req = NoRequest
    /\ store = NoStore
    /\ scan_id = 0
    /\ vision_data = _fallback_vision_data
    /\ round_i = 0
    /\ debate_result = NoDebate
    /\ voice = NoVoice
    /\ voice_err = ""
    /\ exc = ""
    /\ swallowed = FALSE
    /\ response = NoResponse
    /\ p = None
    /\ critic = None
    /\ d = None
    /\ calls = <<>>
    /\ today = 1
    /\ agg = [a \in Aggregators |-> IdleJob]
    /\ reg = IdleRegistration
    /\ parked = NoRun

Init ==
    /\ settings \in Settings
    /\ Quiet
    /\ fn_arg = <<>>
    /\ fn_ret = <<>>

\* A request starts with fresh locals.
FreshLocals ==
    /\ store' = NoStore
    /\ scan_id' = 0
    /\ vision_data' = _fallback_vision_data
    /\ round_i' = 0
    /\ debate_result' = NoDebate
    /\ voice' = NoVoice
    /\ voice_err' = ""
    /\ exc' = ""
    /\ swallowed' = FALSE
    /\ p' = None
    /\ critic' = None
    /\ d' = None
    /\ calls' = <<>>

\* ------------------------------------------------------ table operations
ScanRow(store_id) ==
    [store_id |-> store_id, status |-> "processing", error_message |-> "",
     shelf_health_score |-> 0, products_detected |-> 0,
     final_recommendation |-> JNull, voice_note_url |-> "", created_at |-> today]

ProductRows(sid, store_id, vd) ==
    [i \in 1..Len(vd.products) |->
        [scan_id |-> sid, store_id |-> store_id,
         product_name |-> vd.products[i].name,
         category |-> vd.products[i].category,
         stock_level |-> vd.products[i].stock_level,
         facing_correct |-> vd.products[i].facing_correct,
         detected_at |-> today]]

RoundRow(sid, round_data) ==
    [scan_id |-> sid, agent_name |-> round_data.agent, agent_type |-> round_data.type]

VoiceNoteRow(sid, store_id, v, text) ==
    [scan_id |-> sid, store_id |-> store_id, audio_url |-> v.audio_url,
     duration_seconds |-> v.duration, text_content |-> text]

\* scans.update({... "status": "completed" ...}).eq("id", scan_id)
CompletedScan(row, vd, recommendation, url) ==
    [row EXCEPT !.status = "completed",
                !.shelf_health_score = _calculate_health_score(vd),
                !.products_detected = Len(vd.products),
                !.final_recommendation = recommendation,
                !.voice_note_url = url]

\* scans.update({"status": "failed", "error_message": str(e)}).eq("id", scan_id)
FailedScan(row, e) == [row EXCEPT !.status = "failed", !.error_message = e]

\* UpdatedStore with the count taken from the row as it is at the update.
UpdatedStoreFromRow(row, snapshot, vd) ==
    [row EXCEPT !.total_scans = row.total_scans + 1,
                !.shelf_health_score = _calculate_health_score(vd)]

\* UpdatedStore that never writes a count below the one of the row.
UpdatedStoreNeverLower(row, snapshot, vd) ==
    [row EXCEPT !.total_scans =
                    IF snapshot.total_scans + 1 > row.total_scans
                    THEN snapshot.total_scans + 1 ELSE row.total_scans,
                !.shelf_health_score = _calculate_health_score(vd)]

\* stores.update({"total_scans": store.get("total_scans", 0) + 1, ...})
UpdatedStore(row, snapshot, vd) ==
    [row EXCEPT !.total_scans = snapshot.total_scans + 1,
                !.shelf_health_score = _calculate_health_score(vd)]

\* The newest row of a pincode in the table nd (0: none).
LatestIn(nd, pincode) ==
    LET mine == {i \in 1..Len(nd) : nd[i].pincode = pincode}
    IN  IF mine = {} THEN 0
        ELSE CHOOSE i \in mine :
                \A k \in mine : nd[i].week_start >= nd[k].week_start

LatestDemand(pincode) == LatestIn(neighborhood_demand, pincode)

\* The table nd after an _update_neighborhood whose queries went through. A
\* stored list of {product, times_critical} objects makes
\* set(current_stockouts + stockouts) raise TypeError (a dict is
\* unhashable), which is swallowed like every other exception.
UpdatedDemand(nd, pincode, vd) ==
    LET i == LatestIn(nd, pincode)
        stockouts == {vd.products[k].name : k \in
                        {k \in 1..Len(vd.products) : vd.products[k].stock_level = "critical"}}
        categories == {vd.products[k].category : k \in
                        {k \in 1..Len(vd.products) : vd.products[k].category /= ""}}
    IN  IF pincode = "" \/ i = 0 THEN nd
        ELSE IF nd[i].stockout_products.json.counts /= <<>> THEN nd
        ELSE [nd EXCEPT
                ![i].stockout_products =
                    JsonDumps(NameList(@.json.names \cup stockouts)),
                ![i].top_categories = JsonDumps(NameList(categories)),
                ![i].total_stores_scanned = @ + 1]

\* _update_neighborhood: the table after it. Everything it raises is
\* swallowed; ok says whether its queries went through.
_update_neighborhood(pincode, vd, ok) ==
    IF ok THEN UpdatedDemand(neighborhood_demand, pincode, vd) ELSE neighborhood_demand
\* ------------------------------------------------------- run_ai_debate
Call(provider, reply) == [provider |-> provider, reply |-> reply]

\* The statement after run_ai_debate in the caller.
AfterDebate == IF path = "direct" THEN "ss_rounds" ELSE "wa_rounds"

debate_frame ==
    <<aside, settings, tables, outbox, nreq, path, req, store, scan_id, vision_data, round_i,
      voice, voice_err, exc, swallowed, response>>

\* Round 1: p = await run_presenter(...); rounds.append(...)
DebatePresenter ==
    /\ pc = "db_presenter"
    /\ \E reply \in GenaiReplies :
        /\ p' = run_presenter(vision_data, store, reply)
        /\ calls' = Append(calls, Call("Gemini 1.5 Pro (Presenter)", reply))
    /\ debate_result' =
          [rounds |-> <<Round(p', "presenter")>>,
           final_recommendation |-> JNull]
    /\ pc' = "db_gpt4o"
    /\ UNCHANGED <<debate_frame, critic, d>>

\* critic = None; if settings.OPENAI_API_KEY: critic = await run_critic_gpt4o(...)
DebateCriticGpt4o ==
    /\ pc = "db_gpt4o"
    /\ IF settings.OPENAI_API_KEY
       THEN \E reply \in HttpReplies :
               /\ critic' = run_critic_gpt4o(settings, reply)
               /\ calls' = Append(calls, Call("GPT-4o Mini", reply))
       ELSE critic' = None /\ UNCHANGED calls
    /\ pc' = "db_groq"
    /\ UNCHANGED <<debate_frame, p, d, debate_result>>

\* DebateCriticGroq without the `not critic` test.
DebateCriticGroqAlways ==
    /\ pc = "db_groq"
    /\ IF settings.GROQ_API_KEY
       THEN \E reply \in HttpReplies :
               /\ critic' = run_critic_groq(settings, reply)
               /\ calls' = Append(calls, Call("Groq LLaMA-3.1-70B", reply))
       ELSE UNCHANGED <<critic, calls>>
    /\ pc' = "db_together"
    /\ UNCHANGED <<debate_frame, p, d, debate_result>>

\* if not critic and settings.GROQ_API_KEY: critic = await run_critic_groq(...)
DebateCriticGroq ==
    /\ pc = "db_groq"
    /\ IF critic = None /\ settings.GROQ_API_KEY
       THEN \E reply \in HttpReplies :
               /\ critic' = run_critic_groq(settings, reply)
               /\ calls' = Append(calls, Call("Groq LLaMA-3.1-70B", reply))
       ELSE UNCHANGED <<critic, calls>>
    /\ pc' = "db_together"
    /\ UNCHANGED <<debate_frame, p, d, debate_result>>

\* DebateCriticTogether without the test of the credential: the provider is
\* called with an empty key and answers with a non-success status.
DebateCriticTogetherNoKeyTest ==
    /\ pc = "db_together"
    /\ IF critic = None
       THEN \E reply \in IF settings.TOGETHER_API_KEY THEN HttpReplies ELSE {Non200} :
               /\ critic' = HttpCritic(TRUE, reply, "Together Mixtral-8x7B",
                                       "mixtral-8x7b-instruct", 74)
               /\ calls' = Append(calls, Call("Together Mixtral-8x7B", reply))
       ELSE UNCHANGED <<critic, calls>>
    /\ pc' = "db_flash"
    /\ UNCHANGED <<debate_frame, p, d, debate_result>>

\* if not critic and settings.TOGETHER_API_KEY: critic = await run_critic_together(...)
DebateCriticTogether ==
    /\ pc = "db_together"
    /\ IF critic = None /\ settings.TOGETHER_API_KEY
       THEN \E reply \in HttpReplies :
               /\ critic' = run_critic_together(settings, reply)
               /\ calls' = Append(calls, Call("Together Mixtral-8x7B", reply))
       ELSE UNCHANGED <<critic, calls>>
    /\ pc' = "db_flash"
    /\ UNCHANGED <<debate_frame, p, d, debate_result>>

\* DebateCriticFallback that appends the Critic's round only when the
\* Critic's record is no error record.
DebateCriticFallbackNoErrorRound ==
    /\ pc = "db_flash"
    /\ IF critic = None
       THEN \E reply \in GenaiReplies :
               /\ critic' = run_critic_gemini_fallback(reply)
               /\ calls' = Append(calls, Call("Gemini Flash (Critic Fallback)", reply))
       ELSE UNCHANGED <<critic, calls>>
    /\ debate_result' =
          IF critic'.error THEN debate_result
          ELSE [debate_result EXCEPT !.rounds = Append(@, Round(critic', "critic"))]
    /\ pc' = "db_decider"
    /\ UNCHANGED <<debate_frame, p, d>>

\* if not critic: critic = await run_critic_gemini_fallback(...); rounds.append(...)
DebateCriticFallback ==
    /\ pc = "db_flash"
    /\ IF critic = None
       THEN \E reply \in GenaiReplies :
               /\ critic' = run_critic_gemini_fallback(reply)
               /\ calls' = Append(calls, Call("Gemini Flash (Critic Fallback)", reply))
       ELSE UNCHANGED <<critic, calls>>
    /\ debate_result' =
          [debate_result EXCEPT
              !.rounds = Append(@, Round(critic', "critic"))]
    /\ pc' = "db_decider"
    /\ UNCHANGED <<debate_frame, p, d>>

\* Round 3: d = await run_decider(...); rounds.append(...); final_hindi
DebateDecider ==
    /\ pc = "db_decider"
    /\ \E reply \in DeciderReplies :
        /\ d' = run_decider(vision_data, store, reply)
        /\ calls' = Append(calls, Call("Gemini 1.5 Pro (Decider)", reply))
    /\ debate_result' =
          [rounds |-> Append(debate_result.rounds,
                             Round(d', "decider")),
           final_recommendation |-> FinalHindi(d', vision_data, store)]
    /\ pc' = "db_return"
    /\ UNCHANGED <<debate_frame, p, critic>>

\* return {"rounds": rounds, "final_recommendation": final_hindi, ...}: the
\* caller goes on with the result, run_ai_debate's locals are gone.
DebateReturn ==
    /\ pc = "db_return"
    /\ pc' = AfterDebate
    /\ p' = None
    /\ critic' = None
    /\ d' = None
    /\ calls' = <<>>
    /\ UNCHANGED <<debate_frame, debate_result>>

\* ---------------------------------------------------------- scan_shelf
DbError == "database request failed"

UploadError == "Cloudinary upload failed"

VisionError == "Gemini Vision analysis failed"

MediaError == "Failed to download media"

TwilioError == "messaging request failed"

\* POST /api/scan
ScanShelfRequest ==
    /\ pc \in {"idle", "done"}
    /\ nreq < MaxRequests
    /\ \E sid \in {StoreId, "unknown"} :
          req' = [store_id |-> sid, from_number |-> "", media_url |-> "",
                 num_media |-> 0]
    /\ nreq' = nreq + 1
    /\ path' = "direct"
    /\ pc' = "ss_verify"
    /\ response' = NoResponse
    /\ FreshLocals
    /\ UNCHANGED <<aside, settings, tables, outbox>>

\* 1. Verify Store
SsVerifyStore ==
    /\ pc = "ss_verify"
    /\ \/ /\ pc' = "ss_except"
          /\ exc' = DbError
          /\ UNCHANGED <<store, response>>
       \/ /\ req.store_id \notin DOMAIN stores
          /\ response' = [status |-> 404, body |-> "error", detail |-> "Store not found"]
          /\ pc' = "done"
          /\ UNCHANGED <<store, exc>>
       \/ /\ req.store_id \in DOMAIN stores
          /\ store' = stores[req.store_id]
          /\ pc' = "ss_upload"
          /\ UNCHANGED <<exc, response>>
    /\ UNCHANGED <<aside, settings, tables, outbox, nreq, path, req, scan_id, vision_data,
                   round_i, debate_result, voice, voice_err, swallowed, debate_locals>>

\* SsUploadImage with the scan record created before the upload is tried.
SsUploadImageAfterInsert ==
    /\ pc = "ss_upload"
    /\ scans' = Append(scans, ScanRow(req.store_id))
    /\ scan_id' = Len(scans')
    /\ \/ pc' = "ss_except" /\ exc' = UploadError
       \/ pc' = "ss_insert_scan" /\ UNCHANGED exc
    /\ UNCHANGED <<aside, settings, stores, detected_products, debate_rounds, voice_notes,
                   whatsapp_messages, neighborhood_demand, outbox, nreq, path, req,
                   store, vision_data, round_i, debate_result, voice, voice_err,
                   response, swallowed, debate_locals>>

\* 2. Upload Image to Cloudinary
SsUploadImage ==
    /\ pc = "ss_upload"
    /\ \/ pc' = "ss_except" /\ exc' = UploadError
       \/ pc' = "ss_insert_scan" /\ UNCHANGED exc
    /\ UNCHANGED <<aside, settings, tables, outbox, nreq, path, req, store, scan_id,
                   vision_data, round_i, debate_result, voice, voice_err, response,
                   swallowed, debate_locals>>

\* 3. Create Scan Record
SsInsertScan ==
    /\ pc = "ss_insert_scan"
    /\ \/ /\ pc' = "ss_except"
          /\ exc' = DbError
          /\ UNCHANGED <<scans, scan_id>>
       \/ /\ scans' = Append(scans, ScanRow(req.store_id))
          /\ scan_id' = Len(scans')
          /\ pc' = "ss_vision"
          /\ UNCHANGED exc
    /\ UNCHANGED <<aside, settings, stores, detected_products, debate_rounds, voice_notes,
                   whatsapp_messages, neighborhood_demand, outbox, nreq, path, req,
                   store, vision_data, round_i, debate_result, voice, voice_err,
                   response, swallowed, debate_locals>>

\* 4. Gemini Vision Analysis
SsVision ==
    /\ pc = "ss_vision"
    /\ \/ /\ pc' = "ss_except"
          /\ exc' = VisionError
          /\ UNCHANGED vision_data
       \/ /\ vision_data' \in VisionResults
          /\ pc' = "ss_products"
          /\ UNCHANGED exc
    /\ UNCHANGED <<aside, settings, tables, outbox, nreq, path, req, store, scan_id, round_i,
                   debate_result, voice, voice_err, response, swallowed, debate_locals>>

\* Save detected products
SsInsertProducts ==
    /\ pc = "ss_products"
    /\ \/ /\ vision_data.products /= <<>>
          /\ pc' = "ss_except"
          /\ exc' = DbError
          /\ UNCHANGED detected_products
       \/ /\ detected_products' =
                detected_products \o ProductRows(scan_id, req.store_id, vision_data)
          /\ pc' = "db_presenter"
          /\ UNCHANGED exc
    /\ UNCHANGED <<aside, settings, stores, scans, debate_rounds, voice_notes,
                   whatsapp_messages, neighborhood_demand, outbox, nreq, path, req,
                   store, scan_id, vision_data, round_i, debate_result, voice,
                   voice_err, response, swallowed, debate_locals>>

\* SsInsertRound that swallows a failed insert and goes on with the next
\* round.
SsInsertRoundSwallows ==
    /\ pc = "ss_rounds"
    /\ IF round_i < Len(debate_result.rounds)
       THEN \/ /\ round_i' = round_i + 1
               /\ UNCHANGED <<debate_rounds, pc, exc>>
            \/ /\ debate_rounds' =
                     Append(debate_rounds, RoundRow(scan_id, debate_result.rounds[round_i + 1]))
               /\ round_i' = round_i + 1
               /\ UNCHANGED <<pc, exc>>
       ELSE /\ pc' = "ss_voice"
            /\ UNCHANGED <<debate_rounds, round_i, exc>>
    /\ UNCHANGED <<aside, settings, stores, scans, detected_products, voice_notes,
                   whatsapp_messages, neighborhood_demand, outbox, nreq, path, req,
                   store, scan_id, vision_data, debate_result, voice, voice_err,
                   response, swallowed, debate_locals>>

\* Save debate rounds: one insert per round of debate_result["rounds"]
SsInsertRound ==
    /\ pc = "ss_rounds"
    /\ IF round_i < Len(debate_result.rounds)
       THEN \/ /\ pc' = "ss_except"
               /\ exc' = DbError
               /\ UNCHANGED <<debate_rounds, round_i>>
            \/ /\ debate_rounds' =
                     Append(debate_rounds, RoundRow(scan_id, debate_result.rounds[round_i + 1]))
               /\ round_i' = round_i + 1
               /\ UNCHANGED <<pc, exc>>
       ELSE /\ pc' = "ss_voice"
            /\ UNCHANGED <<debate_rounds, round_i, exc>>
    /\ UNCHANGED <<aside, settings, stores, scans, detected_products, voice_notes,
                   whatsapp_messages, neighborhood_demand, outbox, nreq, path, req,
                   store, scan_id, vision_data, debate_result, voice, voice_err,
                   response, swallowed, debate_locals>>

\* SsVoice where a failure of the synthesis is not caught: it reaches
\* the handler's except clause.
SsVoiceRaises ==
    /\ pc = "ss_voice"
    /\ \E tts \in TtsReplies, uploaded \in BOOLEAN :
        /\ voice' = generate_hindi_voice(debate_result.final_recommendation, tts, uploaded)
        /\ voice_err' = VoiceFailure(tts, uploaded)
        /\ IF VoiceFailure(tts, uploaded) /= ""
           THEN pc' = "ss_except" /\ exc' = VoiceFailure(tts, uploaded)
           ELSE pc' = "ss_voice_note" /\ UNCHANGED exc
    /\ UNCHANGED <<aside, settings, tables, outbox, nreq, path, req, store, scan_id,
                   vision_data, round_i, debate_result, response, swallowed, debate_locals>>

\* 6. Generate Hindi Voice Note
SsVoice ==
    /\ pc = "ss_voice"
    /\ \E tts \in TtsReplies, uploaded \in BOOLEAN :
        /\ voice' = generate_hindi_voice(debate_result.final_recommendation, tts, uploaded)
        /\ voice_err' = VoiceFailure(tts, uploaded)
    /\ pc' = "ss_voice_note"
    /\ UNCHANGED <<aside, settings, tables, outbox, nreq, path, req, store, scan_id,
                   vision_data, round_i, debate_result, exc, response, swallowed, debate_locals>>

\* SsInsertVoiceNote that writes the row only when there is an audio
\* reference.
SsInsertVoiceNoteIfAudio ==
    /\ pc = "ss_voice_note"
    /\ \/ /\ voice.audio_url /= ""
          /\ pc' = "ss_except"
          /\ exc' = DbError
          /\ UNCHANGED voice_notes
       \/ /\ voice_notes' =
                IF voice.audio_url = "" THEN voice_notes
                ELSE Append(voice_notes,
                            VoiceNoteRow(scan_id, req.store_id, voice,
                                         debate_result.final_recommendation))
          /\ pc' = "ss_complete"
          /\ UNCHANGED exc
    /\ UNCHANGED <<aside, settings, stores, scans, detected_products, debate_rounds,
                   whatsapp_messages, neighborhood_demand, outbox, nreq, path, req,
                   store, scan_id, vision_data, round_i, debate_result, voice,
                   voice_err, response, swallowed, debate_locals>>

\* Save voice note record
SsInsertVoiceNote ==
    /\ pc = "ss_voice_note"
    /\ \/ /\ pc' = "ss_except"
          /\ exc' = DbError
          /\ UNCHANGED voice_notes
       \/ /\ voice_notes' =
                Append(voice_notes,
                       VoiceNoteRow(scan_id, req.store_id, voice,
                                    debate_result.final_recommendation))
          /\ pc' = "ss_complete"
          /\ UNCHANGED exc
    /\ UNCHANGED <<aside, settings, stores, scans, detected_products, debate_rounds,
                   whatsapp_messages, neighborhood_demand, outbox, nreq, path, req,
                   store, scan_id, vision_data, round_i, debate_result, voice,
                   voice_err, response, swallowed, debate_locals>>

\* SsCompleteScan that goes on to the store update when its own update
\* has failed.
SsCompleteScanGoesOn ==
    /\ pc = "ss_complete"
    /\ \/ UNCHANGED scans
       \/ scans' =
             [scans EXCEPT ![scan_id] =
                 CompletedScan(@, vision_data, debate_result.final_recommendation,
                               voice.audio_url)]
    /\ pc' = "ss_store"
    /\ UNCHANGED <<aside, settings, stores, detected_products, debate_rounds, voice_notes,
                   whatsapp_messages, neighborhood_demand, outbox, nreq, path, req,
                   store, scan_id, vision_data, round_i, debate_result, voice,
                   voice_err, exc, response, swallowed, debate_locals>>

\* 7. Update Scan as Complete
SsCompleteScan ==
    /\ pc = "ss_complete"
    /\ \/ /\ pc' = "ss_except"
          /\ exc' = DbError
          /\ UNCHANGED scans
       \/ /\ scans' =
                [scans EXCEPT ![scan_id] =
                    CompletedScan(@, vision_data, debate_result.final_recommendation,
                                  voice.audio_url)]
          /\ pc' = "ss_store"
          /\ UNCHANGED exc
    /\ UNCHANGED <<aside, settings, stores, detected_products, debate_rounds, voice_notes,
                   whatsapp_messages, neighborhood_demand, outbox, nreq, path, req,
                   store, scan_id, vision_data, round_i, debate_result, voice,
                   voice_err, response, swallowed, debate_locals>>

\* 8. Update Store Stats
SsUpdateStore ==
    /\ pc = "ss_store"
    /\ \/ /\ pc' = "ss_except"
          /\ exc' = DbError
          /\ UNCHANGED stores
       \/ /\ stores' =
                [stores EXCEPT ![req.store_id] = UpdatedStore(@, store, vision_data)]
          /\ pc' = "ss_neighborhood"
          /\ UNCHANGED exc
    /\ UNCHANGED <<aside, settings, scans, detected_products, debate_rounds, voice_notes,
                   whatsapp_messages, neighborhood_demand, outbox, nreq, path, req,
                   store, scan_id, vision_data, round_i, debate_result, voice,
                   voice_err, response, swallowed, debate_locals>>

\* SsNeighborhood with the failure of the update not swallowed.
SsNeighborhoodRaises ==
    /\ pc = "ss_neighborhood"
    /\ \/ /\ neighborhood_demand' = _update_neighborhood(store.pincode, vision_data, TRUE)
          /\ response' = [status |-> 200, body |-> "result", detail |-> ""]
          /\ pc' = "done"
          /\ UNCHANGED exc
       \/ /\ pc' = "ss_except"
          /\ exc' = DbError
          /\ UNCHANGED <<neighborhood_demand, response>>
    /\ UNCHANGED <<aside, settings, stores, scans, detected_products, debate_rounds,
                   voice_notes, whatsapp_messages, outbox, nreq, path, req, store,
                   scan_id, vision_data, round_i, debate_result, voice, voice_err,
                   swallowed, debate_locals>>

\* 9. Update Neighborhood Demand, and return the result payload
SsNeighborhood ==
    /\ pc = "ss_neighborhood"
    /\ \E ok \in BOOLEAN :
          neighborhood_demand' = _update_neighborhood(store.pincode, vision_data, ok)
    /\ response' = [status |-> 200, body |-> "result", detail |-> ""]
    /\ pc' = "done"
    /\ UNCHANGED <<aside, settings, stores, scans, detected_products, debate_rounds,
                   voice_notes, whatsapp_messages, outbox, nreq, path, req, store,
                   scan_id, vision_data, round_i, debate_result, voice, voice_err,
                   exc, swallowed, debate_locals>>

\* except Exception as e: mark the scan failed if it was created (a failure
\* of that update is swallowed), then raise HTTPException(500)
SsExcept ==
    /\ pc = "ss_except"
    /\ IF scan_id /= 0
       THEN \/ /\ scans' = [scans EXCEPT ![scan_id] = FailedScan(@, exc)]
               /\ UNCHANGED swallowed
            \/ /\ swallowed' = TRUE
               /\ UNCHANGED scans
       ELSE UNCHANGED <<scans, swallowed>>
    /\ response' = [status |-> 500, body |-> "error", detail |-> exc]
    /\ pc' = "done"
    /\ UNCHANGED <<aside, settings, stores, detected_products, debate_rounds, voice_notes,
                   whatsapp_messages, neighborhood_demand, outbox, nreq, path, req,
                   store, scan_id, vision_data, round_i, debate_result, voice,
                   voice_err, exc, debate_locals>>

\* ---------------------------------------------------- whatsapp_webhook
MediaUrl == "https://api.twilio.com/media/ME1"

\* greet_msgs, each word as its characters
GreetWords ==
    {<<"h", "i">>, <<"h", "e", "l", "l", "o">>, <<"h", "e", "y">>,
     <<"h", "e", "l", "p">>, <<"s", "t", "a", "r", "t">>, <<"s", "c", "a", "n">>,
     <<"n", "a", "m", "a", "s", "t", "e">>, <<"n", "a", "m", "a", "s", "k", "a", "r">>}

\* w in body_text: w is a substring of the text
Contains(text, w) ==
    \E i \in 0..(Len(text) - Len(w)) : SubSeq(text, i + 1, i + Len(w)) = w

\* Message bodies, stripped and lowercased: none, a greeting, a question
\* without a greeting word, and a word that merely contains one ("which").
Bodies ==
    {<<>>, <<"h", "i">>, <<"p", "r", "i", "c", "e">>, <<"w", "h", "i", "c", "h">>}

\* The inbound events: who sends, the text, whether media is attached and
\* whether its URL came with it.
Events ==
    [from_number : {StoreNumber, OtherNumber}, num_media : {0, 1},
     media_url : {"", MediaUrl}, body : Bodies]

InboundRow(ev) ==
    [direction |-> "inbound", message_type |-> IF ev.num_media > 0 THEN "image" ELSE "text",
     status |-> "received"]

\* build_processing_twiml and the three inline replies
WebhookReply(ev) ==
    IF ev.num_media = 0
    THEN IF (\E w \in GreetWords : Contains(ev.body, w)) \/ ev.body = <<>>
         THEN "greeting" ELSE "send a photo"
    ELSE IF ev.media_url = "" THEN "image not received" ELSE "processing started"

\* WhatsappWebhook that enqueues the task for every event with media, with
\* or without its URL.
WhatsappWebhookIgnoresUrl ==
    /\ pc \in {"idle", "done"}
    /\ nreq < MaxRequests
    /\ \E ev \in Events :
        /\ \/ whatsapp_messages' = Append(whatsapp_messages, InboundRow(ev))
           \/ UNCHANGED whatsapp_messages
        /\ response' = [status |-> 200, body |-> WebhookReply(ev), detail |-> ""]
        /\ req' = [store_id |-> "", from_number |-> ev.from_number,
                   media_url |-> ev.media_url, num_media |-> ev.num_media]
        /\ pc' = IF ev.num_media > 0 THEN "wa_start" ELSE "done"
    /\ nreq' = nreq + 1
    /\ path' = "whatsapp"
    /\ FreshLocals
    /\ UNCHANGED <<aside, settings, stores, scans, detected_products, debate_rounds,
                   voice_notes, neighborhood_demand, outbox>>

\* POST /webhook/whatsapp: log the inbound message (a failure of that insert
\* is swallowed), classify, enqueue the background task, acknowledge.
WhatsappWebhook ==
    /\ pc \in {"idle", "done"}
    /\ nreq < MaxRequests
    /\ \E ev \in Events :
        /\ \/ whatsapp_messages' = Append(whatsapp_messages, InboundRow(ev))
           \/ UNCHANGED whatsapp_messages
        /\ response' = [status |-> 200, body |-> WebhookReply(ev), detail |-> ""]
        /\ req' = [store_id |-> "", from_number |-> ev.from_number,
                   media_url |-> ev.media_url, num_media |-> ev.num_media]
        /\ pc' = IF ev.num_media > 0 /\ ev.media_url /= "" THEN "wa_start" ELSE "done"
    /\ nreq' = nreq + 1
    /\ path' = "whatsapp"
    /\ FreshLocals
    /\ UNCHANGED <<aside, settings, stores, scans, detected_products, debate_rounds,
                   voice_notes, neighborhood_demand, outbox>>

\* ------------------------------------------------ _run_whatsapp_pipeline
Message(kind, body, media) == [kind |-> kind, body |-> body, media_url |-> media]

RegisterPrompt == Message("text", <<"Aapka number register nahi hai ShelfScan AI mein.">>, "")

Apology ==
    Message("text", <<"Maafi karein, kuch technical problem aayi.",
                      "Thodi der baad dobara try karein.">>, "")

Caption(vd) ==
    <<"ShelfScan AI Report", "Health Score:", _calculate_health_score(vd),
      "Critical:", vd.critical_count, "Low:", vd.low_count>>

\* The stores row of a WhatsApp number ("" when there is none).
StoreOfNumber(number) ==
    IF \E s \in DOMAIN stores : stores[s].whatsapp_number = number
    THEN CHOOSE s \in DOMAIN stores : stores[s].whatsapp_number = number
    ELSE ""

\* The credentials check, then: look up store by WhatsApp number
WaLookupStore ==
    /\ pc = "wa_start"
    /\ IF ~settings.TWILIO
       THEN pc' = "done" /\ UNCHANGED <<store, exc>>
       ELSE \/ /\ pc' = "wa_except"
               /\ exc' = DbError
               /\ UNCHANGED store
            \/ /\ StoreOfNumber(req.from_number) = ""
               /\ pc' = "wa_unregistered"
               /\ UNCHANGED <<store, exc>>
            \/ /\ StoreOfNumber(req.from_number) /= ""
               /\ store' = stores[StoreOfNumber(req.from_number)]
               /\ pc' = "wa_download"
               /\ UNCHANGED exc
    /\ UNCHANGED <<aside, settings, tables, outbox, nreq, path, req, scan_id, vision_data,
                   round_i, debate_result, voice, voice_err, response, swallowed, debate_locals>>

\* Unregistered user: ask them to register, and return
WaUnregistered ==
    /\ pc = "wa_unregistered"
    /\ \/ /\ pc' = "wa_except"
          /\ exc' = TwilioError
          /\ UNCHANGED outbox
       \/ /\ outbox' = Append(outbox, RegisterPrompt)
          /\ pc' = "done"
          /\ UNCHANGED exc
    /\ UNCHANGED <<aside, settings, tables, nreq, path, req, store, scan_id, vision_data,
                   round_i, debate_result, voice, voice_err, response, swallowed, debate_locals>>

\* Download image from Twilio
WaDownloadMedia ==
    /\ pc = "wa_download"
    /\ \/ pc' = "wa_except" /\ exc' = MediaError
       \/ pc' = "wa_upload" /\ UNCHANGED exc
    /\ UNCHANGED <<aside, settings, tables, outbox, nreq, path, req, store, scan_id,
                   vision_data, round_i, debate_result, voice, voice_err, response,
                   swallowed, debate_locals>>

\* Upload to Cloudinary
WaUploadImage ==
    /\ pc = "wa_upload"
    /\ \/ pc' = "wa_except" /\ exc' = UploadError
       \/ pc' = "wa_insert_scan" /\ UNCHANGED exc
    /\ UNCHANGED <<aside, settings, tables, outbox, nreq, path, req, store, scan_id,
                   vision_data, round_i, debate_result, voice, voice_err, response,
                   swallowed, debate_locals>>

\* Create scan record
WaInsertScan ==
    /\ pc = "wa_insert_scan"
    /\ \/ /\ pc' = "wa_except"
          /\ exc' = DbError
          /\ UNCHANGED <<scans, scan_id>>
       \/ /\ scans' = Append(scans, ScanRow(store.id))
          /\ scan_id' = Len(scans')
          /\ pc' = "wa_log"
          /\ UNCHANGED exc
    /\ UNCHANGED <<aside, settings, stores, detected_products, debate_rounds, voice_notes,
                   whatsapp_messages, neighborhood_demand, outbox, nreq, path, req,
                   store, vision_data, round_i, debate_result, voice, voice_err,
                   response, swallowed, debate_locals>>

\* Log outbound message link
WaLogProcessing ==
    /\ pc = "wa_log"
    /\ \/ /\ pc' = "wa_except"
          /\ exc' = DbError
          /\ UNCHANGED whatsapp_messages
       \/ /\ whatsapp_messages' =
                Append(whatsapp_messages,
                       [direction |-> "inbound", message_type |-> "image",
                        status |-> "processing"])
          /\ pc' = "wa_vision"
          /\ UNCHANGED exc
    /\ UNCHANGED <<aside, settings, stores, scans, detected_products, debate_rounds,
                   voice_notes, neighborhood_demand, outbox, nreq, path, req, store,
                   scan_id, vision_data, round_i, debate_result, voice, voice_err,
                   response, swallowed, debate_locals>>

\* Vision analysis
WaVision ==
    /\ pc = "wa_vision"
    /\ \/ /\ pc' = "wa_except"
          /\ exc' = VisionError
          /\ UNCHANGED vision_data
       \/ /\ vision_data' \in VisionResults
          /\ pc' = "wa_products"
          /\ UNCHANGED exc
    /\ UNCHANGED <<aside, settings, tables, outbox, nreq, path, req, store, scan_id, round_i,
                   debate_result, voice, voice_err, response, swallowed, debate_locals>>

\* Save detected products
WaInsertProducts ==
    /\ pc = "wa_products"
    /\ \/ /\ vision_data.products /= <<>>
          /\ pc' = "wa_except"
          /\ exc' = DbError
          /\ UNCHANGED detected_products
       \/ /\ detected_products' =
                detected_products \o ProductRows(scan_id, store.id, vision_data)
          /\ pc' = "db_presenter"
          /\ UNCHANGED exc
    /\ UNCHANGED <<aside, settings, stores, scans, debate_rounds, voice_notes,
                   whatsapp_messages, neighborhood_demand, outbox, nreq, path, req,
                   store, scan_id, vision_data, round_i, debate_result, voice,
                   voice_err, response, swallowed, debate_locals>>

\* for round_data in debate_result["rounds"]: insert
WaInsertRound ==
    /\ pc = "wa_rounds"
    /\ IF round_i < Len(debate_result.rounds)
       THEN \/ /\ pc' = "wa_except"
               /\ exc' = DbError
               /\ UNCHANGED <<debate_rounds, round_i>>
            \/ /\ debate_rounds' =
                     Append(debate_rounds, RoundRow(scan_id, debate_result.rounds[round_i + 1]))
               /\ round_i' = round_i + 1
               /\ UNCHANGED <<pc, exc>>
       ELSE /\ pc' = "wa_voice"
            /\ UNCHANGED <<debate_rounds, round_i, exc>>
    /\ UNCHANGED <<aside, settings, stores, scans, detected_products, voice_notes,
                   whatsapp_messages, neighborhood_demand, outbox, nreq, path, req,
                   store, scan_id, vision_data, debate_result, voice, voice_err,
                   response, swallowed, debate_locals>>

\* Hindi Voice Note
WaVoice ==
    /\ pc = "wa_voice"
    /\ \E tts \in TtsReplies, uploaded \in BOOLEAN :
        /\ voice' = generate_hindi_voice(debate_result.final_recommendation, tts, uploaded)
        /\ voice_err' = VoiceFailure(tts, uploaded)
    /\ pc' = "wa_voice_note"
    /\ UNCHANGED <<aside, settings, tables, outbox, nreq, path, req, store, scan_id,
                   vision_data, round_i, debate_result, exc, response, swallowed, debate_locals>>

\* Save voice note
WaInsertVoiceNote ==
    /\ pc = "wa_voice_note"
    /\ \/ /\ pc' = "wa_except"
          /\ exc' = DbError
          /\ UNCHANGED voice_notes
       \/ /\ voice_notes' =
                Append(voice_notes,
                       VoiceNoteRow(scan_id, store.id, voice,
                                    debate_result.final_recommendation))
          /\ pc' = "wa_complete"
          /\ UNCHANGED exc
    /\ UNCHANGED <<aside, settings, stores, scans, detected_products, debate_rounds,
                   whatsapp_messages, neighborhood_demand, outbox, nreq, path, req,
                   store, scan_id, vision_data, round_i, debate_result, voice,
                   voice_err, response, swallowed, debate_locals>>

\* Update scan record
WaCompleteScan ==
    /\ pc = "wa_complete"
    /\ \/ /\ pc' = "wa_except"
          /\ exc' = DbError
          /\ UNCHANGED scans
       \/ /\ scans' =
                [scans EXCEPT ![scan_id] =
                    CompletedScan(@, vision_data, debate_result.final_recommendation,
                                  voice.audio_url)]
          /\ pc' = "wa_store"
          /\ UNCHANGED exc
    /\ UNCHANGED <<aside, settings, stores, detected_products, debate_rounds, voice_notes,
                   whatsapp_messages, neighborhood_demand, outbox, nreq, path, req,
                   store, scan_id, vision_data, round_i, debate_result, voice,
                   voice_err, response, swallowed, debate_locals>>

\* WaUpdateStore that goes on to the report when its update has failed.
WaUpdateStoreGoesOn ==
    /\ pc = "wa_store"
    /\ \/ UNCHANGED stores
       \/ stores' = [stores EXCEPT ![store.id] = UpdatedStore(@, store, vision_data)]
    /\ pc' = "wa_neighborhood"
    /\ UNCHANGED <<aside, settings, scans, detected_products, debate_rounds, voice_notes,
                   whatsapp_messages, neighborhood_demand, outbox, nreq, path, req,
                   store, scan_id, vision_data, round_i, debate_result, voice,
                   voice_err, exc, response, swallowed, debate_locals>>

\* Update store stats
WaUpdateStore ==
    /\ pc = "wa_store"
    /\ \/ /\ pc' = "wa_except"
          /\ exc' = DbError
          /\ UNCHANGED stores
       \/ /\ stores' = [stores EXCEPT ![store.id] = UpdatedStore(@, store, vision_data)]
          /\ pc' = "wa_neighborhood"
          /\ UNCHANGED exc
    /\ UNCHANGED <<aside, settings, scans, detected_products, debate_rounds, voice_notes,
                   whatsapp_messages, neighborhood_demand, outbox, nreq, path, req,
                   store, scan_id, vision_data, round_i, debate_result, voice,
                   voice_err, response, swallowed, debate_locals>>

\* Neighborhood update
WaNeighborhood ==
    /\ pc = "wa_neighborhood"
    /\ \E ok \in BOOLEAN :
          neighborhood_demand' = _update_neighborhood(store.pincode, vision_data, ok)
    /\ pc' = "wa_send"
    /\ UNCHANGED <<aside, settings, stores, scans, detected_products, debate_rounds,
                   voice_notes, whatsapp_messages, outbox, nreq, path, req, store,
                   scan_id, vision_data, round_i, debate_result, voice, voice_err,
                   exc, response, swallowed, debate_locals>>

\* The report: the voice note, or the text fallback with the recommendation
Report ==
    IF voice.audio_url /= ""
    THEN Message("media", Caption(vision_data), voice.audio_url)
    ELSE Message("text",
                 Caption(vision_data) \o Take(debate_result.final_recommendation.s, 1000),
                 "")

\* Send voice note back on WhatsApp
WaSendReport ==
    /\ pc = "wa_send"
    /\ \/ /\ pc' = "wa_except"
          /\ exc' = TwilioError
          /\ UNCHANGED outbox
       \/ /\ outbox' = Append(outbox, Report)
          /\ pc' = "wa_log_outbound"
          /\ UNCHANGED exc
    /\ UNCHANGED <<aside, settings, tables, nreq, path, req, store, scan_id, vision_data,
                   round_i, debate_result, voice, voice_err, response, swallowed, debate_locals>>

\* Log outbound
WaLogOutbound ==
    /\ pc = "wa_log_outbound"
    /\ \/ /\ pc' = "wa_except"
          /\ exc' = DbError
          /\ UNCHANGED whatsapp_messages
       \/ /\ whatsapp_messages' =
                Append(whatsapp_messages,
                       [direction |-> "outbound", message_type |-> "audio",
                        status |-> "delivered"])
          /\ pc' = "done"
          /\ UNCHANGED exc
    /\ UNCHANGED <<aside, settings, stores, scans, detected_products, debate_rounds,
                   voice_notes, neighborhood_demand, outbox, nreq, path, req, store,
                   scan_id, vision_data, round_i, debate_result, voice, voice_err,
                   response, swallowed, debate_locals>>

\* WaExcept with the failure put into the webhook's response.
WaExceptAnswersError ==
    /\ pc = "wa_except"
    /\ \/ outbox' = Append(outbox, Apology)
       \/ UNCHANGED outbox
    /\ response' = [status |-> 500, body |-> "error", detail |-> exc]
    /\ pc' = "done"
    /\ UNCHANGED <<aside, settings, tables, nreq, path, req, store, scan_id, vision_data,
                   round_i, debate_result, voice, voice_err, exc,
                   swallowed, debate_locals>>

\* WaExcept with the error text put into the message.
WaExceptSendsDetail ==
    /\ pc = "wa_except"
    /\ \/ outbox' = Append(outbox, Message("text", <<"Error:", exc>>, ""))
       \/ UNCHANGED outbox
    /\ pc' = "done"
    /\ UNCHANGED <<aside, settings, tables, nreq, path, req, store, scan_id, vision_data,
                   round_i, debate_result, voice, voice_err, exc, response,
                   swallowed, debate_locals>>

\* except Exception as e: send the apology (a failure of that send is
\* swallowed); the scan row is not touched
WaExcept ==
    /\ pc = "wa_except"
    /\ \/ outbox' = Append(outbox, Apology)
       \/ UNCHANGED outbox
    /\ pc' = "done"
    /\ UNCHANGED <<aside, settings, tables, nreq, path, req, store, scan_id, vision_data,
                   round_i, debate_result, voice, voice_err, exc, response,
                   swallowed, debate_locals>>

\* ---------------------------------------------------------- specification
Next ==
    \/ ScanShelfRequest
    \/ SsVerifyStore
    \/ SsUploadImage
    \/ SsInsertScan
    \/ SsVision
    \/ SsInsertProducts
    \/ SsInsertRound
    \/ SsVoice
    \/ SsInsertVoiceNote
    \/ SsCompleteScan
    \/ SsUpdateStore
    \/ SsNeighborhood
    \/ SsExcept
    \/ WhatsappWebhook
    \/ WaLookupStore
    \/ WaUnregistered
    \/ WaDownloadMedia
    \/ WaUploadImage
    \/ WaInsertScan
    \/ WaLogProcessing
    \/ WaVision
    \/ WaInsertProducts
    \/ WaInsertRound
    \/ WaVoice
    \/ WaInsertVoiceNote
    \/ WaCompleteScan
    \/ WaUpdateStore
    \/ WaNeighborhood
    \/ WaSendReport
    \/ WaLogOutbound
    \/ WaExcept
    \/ DebatePresenter
    \/ DebateCriticGpt4o
    \/ DebateCriticGroq
    \/ DebateCriticTogether
    \/ DebateCriticFallback
    \/ DebateDecider
    \/ DebateReturn

Spec == Init /\ [][Next]_vars


\* A step of a run that has started. Every call of a run returns or raises,
\* so a run that can take a step takes one.
RunStep == pc \notin {"idle", "done"} /\ Next

\* The pipeline with the first Critic's credential and the messaging
\* credentials set.
LiveInit ==
    /\ Init
    /\ settings = [OPENAI_API_KEY |-> TRUE, GROQ_API_KEY |-> FALSE,
                   TOGETHER_API_KEY |-> FALSE, TWILIO |-> TRUE]

SpecLive == LiveInit /\ [][Next]_vars /\ WF_vars(RunStep)

\* ------------------------------------------------ aggregation_service.py
\* Dates are day numbers; day 1 is a Monday. datetime.weekday(): Monday is 0.
Weekday(day) == (day - 1) % 7

\* (utcnow() - timedelta(days=utcnow().weekday())).strftime("%Y-%m-%d")
WeekStart(day) == day - Weekday(day)

WindowDays == 7

\* .gte("created_at", utcnow() - timedelta(days=7)), to the day
InWindow(day) == day >= today - WindowDays

\* list(set(s["store_id"] for s in recent_scans.data))
RecentStoreIds ==
    {scans[i].store_id : i \in {i \in 1..Len(scans) : InWindow(scans[i].created_at)}}

\* The store ids there can be, in the order the stores table returns rows.
StoreOrder == <<"s1", "s2", "s3">>

\* stores.select("id, pincode, city").in_("id", store_ids): the ids of the
\* rows found.
SelectStores(store_ids) ==
    SelectSeq(StoreOrder, LAMBDA s : s \in store_ids /\ s \in DOMAIN stores)

\* by_pincode[(pincode, city)].append(store_id), for one store
AddToGroup(groups, s) ==
    LET key == <<stores[s].pincode, stores[s].city>>
        at == {k \in 1..Len(groups) : <<groups[k].pincode, groups[k].city>> = key}
    IN  IF at = {}
        THEN Append(groups, [pincode |-> key[1], city |-> key[2], store_ids |-> <<s>>])
        ELSE [groups EXCEPT ![CHOOSE k \in at : TRUE].store_ids = Append(@, s)]

\* by_pincode, as the list of its items in insertion order
RECURSIVE GroupByPincode(_)
GroupByPincode(ids) ==
    IF ids = <<>> THEN <<>>
    ELSE AddToGroup(GroupByPincode(SubSeq(ids, 1, Len(ids) - 1)), ids[Len(ids)])

Range(seq) == {seq[i] : i \in 1..Len(seq)}

\* detected_products.select(...).in_("store_id", store_ids).gte("detected_at", ...)
SelectProducts(store_ids) ==
    SelectSeq(detected_products,
              LAMBDA r : r.store_id \in Range(store_ids) /\ InWindow(r.detected_at))

\* Counter(items): the distinct items in the order of their first occurrence
RECURSIVE Distinct(_)
Distinct(items) ==
    IF items = <<>> THEN <<>>
    ELSE <<Head(items)>> \o Distinct(SelectSeq(Tail(items), LAMBDA y : y /= Head(items)))

Count(items, x) == Cardinality({i \in 1..Len(items) : items[i] = x})

\* One more (item, count) pair put into a list sorted by falling count: after
\* the pairs that count as much or more.
InsertByCount(sorted, pair) ==
    LET k == Cardinality({i \in 1..Len(sorted) : sorted[i][2] >= pair[2]})
    IN  SubSeq(sorted, 1, k) \o <<pair>> \o SubSeq(sorted, k + 1, Len(sorted))

RECURSIVE SortByCount(_)
SortByCount(pairs) ==
    IF pairs = <<>> THEN <<>>
    ELSE InsertByCount(SortByCount(SubSeq(pairs, 1, Len(pairs) - 1)), pairs[Len(pairs)])

\* Counter(items).most_common(n): the n most frequent items with their
\* counts, the more frequent first, equally frequent ones in the order of
\* their first occurrence.
MostCommon(items, n) ==
    LET keys == Distinct(items)
        pairs == [i \in 1..Len(keys) |-> <<keys[i], Count(items, keys[i])>>]
    IN  Take(SortByCount(pairs), n)

TopStockouts == 10

TopCategories == 8

TopSignals == 5

\* round(part / whole * 100, 1), in tenths of a percent (no quotient of this
\* model's row counts lies halfway between two tenths)
RoundedRate(part, whole) == (2000 * part + whole) \div (2 * whole)

\* The record _aggregate_pincode computes for a group from the rows
\* all_products (updated_at is left out).
AggregateRecord(group, week_start, all_products) ==
    LET names(level) ==
            LET rows == SelectSeq(all_products, LAMBDA r : r.stock_level = level)
            IN  [i \in 1..Len(rows) |-> rows[i].product_name]
        stockout_items == names("critical")
        low_items == names("low")
        categories ==
            LET rows == SelectSeq(all_products, LAMBDA r : r.category /= "")
            IN  [i \in 1..Len(rows) |-> rows[i].category]
        stockout_counts == MostCommon(stockout_items, TopStockouts)
        category_counts == MostCommon(categories, TopCategories)
        top_categories ==
            [i \in 1..Len(category_counts) |->
                [category |-> category_counts[i][1], count |-> category_counts[i][2]]]
        stockout_products ==
            [i \in 1..Len(stockout_counts) |->
                [product |-> stockout_counts[i][1],
                 times_critical |-> stockout_counts[i][2]]]
        demand_signals ==
            [total_products_scanned |-> Len(all_products),
             unique_products |->
                Cardinality({all_products[i].product_name : i \in 1..Len(all_products)}),
             stockout_rate |-> RoundedRate(Len(stockout_items), Len(all_products)),
             low_stock_rate |-> RoundedRate(Len(low_items), Len(all_products)),
             top_stockouts |->
                [i \in 1..Len(Take(stockout_counts, TopSignals)) |-> stockout_counts[i][1]]]
    IN  [pincode |-> group.pincode,
         city |-> group.city,
         week_start |-> week_start,
         total_stores_scanned |-> Len(group.store_ids),
         top_categories |-> JsonDumps(CountList(top_categories)),
         stockout_products |-> JsonDumps(CountList(stockout_products)),
         demand_signals |-> JsonDumps(<<demand_signals>>)]

\* neighborhood_demand.select("id").eq("pincode", ...).eq("week_start", ...):
\* the ids found in the table nd (the id of a row is its index).
ExistingIds(nd, pincode, week_start) ==
    SelectSeq([i \in 1..Len(nd) |-> i],
              LAMBDA i : nd[i].pincode = pincode /\ nd[i].week_start = week_start)

\* Upsert without the update branch.
UpsertAlwaysInserts(nd, existing, record) == Append(nd, record)

\* if existing.data: update(record).eq("id", existing.data[0]["id"])
\* else: insert(record)
Upsert(nd, existing, record) ==
    IF existing /= <<>> THEN [nd EXCEPT ![existing[1]] = record]
    ELSE Append(nd, record)

\* _aggregate_pincode for the groups in turn, none of its requests failing:
\* the table nd after them.
RECURSIVE AggregateGroups(_, _, _)
AggregateGroups(nd, groups, week_start) ==
    IF groups = <<>> THEN nd
    ELSE LET group == Head(groups)
             all_products == SelectProducts(group.store_ids)
             record == AggregateRecord(group, week_start, all_products)
             after == IF all_products = <<>> THEN nd
                      ELSE Upsert(nd, ExistingIds(nd, group.pincode, week_start), record)
         IN  AggregateGroups(after, Tail(groups), week_start)

\* The groups of a run_aggregation started now.
CurrentGroups == GroupByPincode(SelectStores(RecentStoreIds))

\* A whole run_aggregation started now on the table nd, none of its
\* requests failing and nothing else writing meanwhile: the table after it.
RunAggregation(nd) == AggregateGroups(nd, CurrentGroups, WeekStart(today))

\* The job goes on to its next group, or ends after the last one.
NextGroup(job) ==
    IF job.g < Len(job.groups)
    THEN [job EXCEPT !.pc = "products", !.g = @ + 1, !.record = <<>>, !.existing = <<>>]
    ELSE [job EXCEPT !.pc = "done", !.record = <<>>, !.existing = <<>>]

\* GroupFailed with the exception ending the run.
GroupFailedAborts(job) ==
    [job EXCEPT !.failed = @ \cup {job.g}, !.pc = "done", !.record = <<>>,
                !.existing = <<>>]

\* except Exception in _aggregate_pincode: print, and return to the loop
GroupFailed(job) == NextGroup([job EXCEPT !.failed = @ \cup {job.g}])

pipeline ==
    <<settings, outbox, nreq, path, pc, req, store, scan_id, vision_data, round_i,
      debate_result, voice, voice_err, exc, swallowed, response, debate_locals>>

agg_frame ==
    <<pipeline, stores, scans, detected_products, debate_rounds, voice_notes,
      whatsapp_messages, today, reg, fn_arg, fn_ret, parked>>

\* run_aggregation: week_start, and the scans of the last 7 days
AggSelectScans(a) ==
    /\ agg[a].pc = "idle"
    /\ \/ agg' = [agg EXCEPT ![a].pc = "done"]
       \/ agg' = [agg EXCEPT ![a].week_start = WeekStart(today),
                             ![a].store_ids = RecentStoreIds,
                             ![a].pc = IF RecentStoreIds = {} THEN "done" ELSE "stores"]
    /\ UNCHANGED <<agg_frame, neighborhood_demand>>

\* Get pincode for each active store, group store_ids by pincode
AggSelectStores(a) ==
    /\ agg[a].pc = "stores"
    /\ \/ agg' = [agg EXCEPT ![a].pc = "done"]
       \/ LET groups == GroupByPincode(SelectStores(agg[a].store_ids))
          IN  agg' = [agg EXCEPT ![a].groups = groups,
                                 ![a].g = IF groups = <<>> THEN 0 ELSE 1,
                                 ![a].pc = IF groups = <<>> THEN "done" ELSE "products"]
    /\ UNCHANGED <<agg_frame, neighborhood_demand>>

\* _aggregate_pincode: get all products detected in these stores this week,
\* and compute the aggregates
AggSelectProducts(a) ==
    /\ agg[a].pc = "products"
    /\ \/ agg' = [agg EXCEPT ![a] = GroupFailed(@)]
       \/ LET job == agg[a]
              all_products == SelectProducts(job.groups[job.g].store_ids)
          IN  IF all_products = <<>>
              THEN agg' = [agg EXCEPT ![a] = NextGroup(@)]
              ELSE agg' = [agg EXCEPT
                             ![a].record = <<AggregateRecord(job.groups[job.g],
                                                             job.week_start, all_products)>>,
                             ![a].pc = "existing"]
    /\ UNCHANGED <<agg_frame, neighborhood_demand>>

\* Upsert into neighborhood_demand: the select
AggSelectExisting(a) ==
    /\ agg[a].pc = "existing"
    /\ \/ agg' = [agg EXCEPT ![a] = GroupFailed(@)]
       \/ agg' = [agg EXCEPT
                    ![a].existing = ExistingIds(neighborhood_demand,
                                                agg[a].record[1].pincode,
                                                agg[a].record[1].week_start),
                    ![a].pc = "write"]
    /\ UNCHANGED <<agg_frame, neighborhood_demand>>

\* Upsert into neighborhood_demand: the update or the insert
AggWrite(a) ==
    /\ agg[a].pc = "write"
    /\ \/ /\ agg' = [agg EXCEPT ![a] = GroupFailed(@)]
          /\ UNCHANGED neighborhood_demand
       \/ /\ neighborhood_demand' =
                Upsert(neighborhood_demand, agg[a].existing, agg[a].record[1])
          /\ agg' = [agg EXCEPT ![a] = NextGroup([@ EXCEPT !.upserted = @ \cup {agg[a].g}])]
    /\ UNCHANGED agg_frame

\* ------------------------------------------------------- register_store
NewStoreId == "s3"

Pincode2 == "110002"

Pincode3 == "110003"

\* A pincode of nine digits, and one of six digits and a newline.
NineDigits == "110001234"

WithNewline == "110003\n"

\* The characters of the pincodes a form can carry.
PincodeChars(v) ==
    CASE v = Pincode -> <<"1", "1", "0", "0", "0", "1">>
      [] v = Pincode3 -> <<"1", "1", "0", "0", "0", "3">>
      [] v = NineDigits -> <<"1", "1", "0", "0", "0", "1", "2", "3", "4">>
      [] v = WithNewline -> <<"1", "1", "0", "0", "0", "3", "\n">>

\* \d
IsDigit(c) == c \in {"0", "1", "2", "3", "4", "5", "6", "7", "8", "9"}

\* StoreRegister.validate_pincode: re.match(r"^\d{6}$", v) is a match (TRUE:
\* v is returned; FALSE: ValueError, the request is answered with 422).
\* The pattern's $ matches at the end and also before a newline that ends
\* the string.
validate_pincode(v) ==
    LET s == PincodeChars(v)
    IN  /\ Len(s) >= 6
        /\ \A i \in 1..6 : IsDigit(s[i])
        /\ \/ Len(s) = 6
           \/ Len(s) = 7 /\ s[7] = "\n"

\* The forms the registration request can carry: a number that is
\* registered already or a new one (both in the form validate_phone
\* returns), a pincode that has stores, a new one, and two that are not six
\* digits.
Registrations ==
    [owner_name : {"Sita"}, whatsapp_number : {StoreNumber, OtherNumber},
     pincode : {Pincode, Pincode3, NineDigits, WithNewline}, city : {City}]

reg_frame ==
    <<pipeline, scans, detected_products, debate_rounds, voice_notes,
      whatsapp_messages, today, agg, fn_arg, fn_ret, parked>>

\* POST /api/stores/register: the body is validated as a StoreRegister
\* before register_store is called.
RegisterRequest ==
    /\ reg.pc = "idle"
    /\ \E data \in Registrations :
          IF validate_pincode(data.pincode)
          THEN reg' = [reg EXCEPT !.pc = "check", !.data = data]
          ELSE reg' = [reg EXCEPT !.pc = "done", !.data = data, !.status = 422]
    /\ UNCHANGED <<reg_frame, stores, neighborhood_demand>>

\* Check if already registered
RegCheckExisting ==
    /\ reg.pc = "check"
    /\ \/ reg' = [reg EXCEPT !.pc = "done", !.status = 500]
       \/ /\ \E s \in DOMAIN stores : stores[s].whatsapp_number = reg.data.whatsapp_number
          /\ reg' = [reg EXCEPT !.pc = "done", !.status = 409]
       \/ /\ \A s \in DOMAIN stores : stores[s].whatsapp_number /= reg.data.whatsapp_number
          /\ reg' = [reg EXCEPT !.pc = "insert"]
    /\ UNCHANGED <<reg_frame, stores, neighborhood_demand>>

\* stores.insert(store_data)
RegInsertStore ==
    /\ reg.pc = "insert"
    /\ \/ /\ reg' = [reg EXCEPT !.pc = "done", !.status = 500]
          /\ UNCHANGED stores
       \/ /\ stores' =
                [s \in DOMAIN stores \cup {NewStoreId} |->
                    IF s = NewStoreId
                    THEN [id |-> NewStoreId, owner_name |-> reg.data.owner_name,
                          whatsapp_number |-> reg.data.whatsapp_number,
                          pincode |-> reg.data.pincode, city |-> reg.data.city,
                          total_scans |-> 0, shelf_health_score |-> 0]
                    ELSE stores[s]]
          /\ reg' = [reg EXCEPT !.pc = "init_check", !.store_id = NewStoreId]
    /\ UNCHANGED <<reg_frame, neighborhood_demand>>

\* _init_neighborhood: the select by pincode (a failure is swallowed, and
\* the registration is answered as successful)
InitCheckExisting ==
    /\ reg.pc = "init_check"
    /\ \/ reg' = [reg EXCEPT !.pc = "done", !.status = 200]
       \/ /\ LatestDemand(reg.data.pincode) /= 0
          /\ reg' = [reg EXCEPT !.pc = "done", !.status = 200]
       \/ /\ LatestDemand(reg.data.pincode) = 0
          /\ reg' = [reg EXCEPT !.pc = "init_insert"]
    /\ UNCHANGED <<reg_frame, stores, neighborhood_demand>>

\* _init_neighborhood: the insert (a failure is swallowed)
InitInsert ==
    /\ reg.pc = "init_insert"
    /\ \/ UNCHANGED neighborhood_demand
       \/ neighborhood_demand' =
             Append(neighborhood_demand,
                    InitialRow(reg.data.pincode, reg.data.city, today))
    /\ reg' = [reg EXCEPT !.pc = "done", !.status = 200]
    /\ UNCHANGED <<reg_frame, stores>>

\* ------------------------------------------- the jobs next to the pipeline
\* The days the jobs run on: the Monday and the Wednesday of the week after
\* the first store registered.
Days == {8, 10}

\* A shelf scanned in the week before.
OldShelf ==
    [products |-> <<Product("Amul Butter", "Dairy", "critical", TRUE),
                    Product("Tata Salt", "Staples", "critical", TRUE),
                    Product("Maggi", "Noodles", "low", FALSE)>>,
     critical_count |-> 2, low_count |-> 1,
     top_restock_urgent |-> <<"Amul Butter", "Tata Salt", "Maggi">>]

\* Where the second store is: in another pincode, or in the first store's
\* pincode under another city name or under the same one.
SecondStorePlaces ==
    {[pincode |-> Pincode2, city |-> City],
     [pincode |-> Pincode, city |-> "New Delhi"],
     [pincode |-> Pincode, city |-> City]}

SecondStore(place) ==
    [id |-> "s2", owner_name |-> "Suresh", whatsapp_number |-> "+919111111111",
     pincode |-> place.pincode, city |-> place.city, total_scans |-> 2,
     shelf_health_score |-> _calculate_health_score(ShelfVision)]

\* The rounds and the voice note of a run whose providers all answered.
RunRounds ==
    <<[agent |-> "Gemini 1.5 Pro", model |-> "gemini-1.5-pro", type |-> "presenter"],
      [agent |-> "GPT-4o Mini", model |-> "gpt-4o-mini", type |-> "critic"],
      [agent |-> "Gemini 1.5 Pro", model |-> "gemini-1.5-pro", type |-> "decider"]>>

RunVoice == generate_hindi_voice(JStr(HindiText), Ok(<<"audio/mpeg">>), TRUE)

\* The rows such a run of a store, on a day, has written.
ScanOf(s, vd, day) ==
    [CompletedScan(ScanRow(s), vd, JStr(HindiText), RunVoice.audio_url)
        EXCEPT !.created_at = day]

ProductsOf(sid, s, vd, day) ==
    [i \in 1..Len(vd.products) |->
        [ProductRows(sid, s, vd)[i] EXCEPT !.detected_at = day]]

RoundsOfRun(sid) == [i \in 1..3 |-> RoundRow(sid, RunRounds[i])]

\* The state in which a direct scan of the first store is at its last step,
\* the neighborhood update, in the week after the second store has scanned
\* twice; the jobs and the registration have not started.
AggInit ==
    \E day \in Days, vd \in VisionResults, place \in SecondStorePlaces :
        /\ today = day
        /\ stores = [s \in {StoreId, "s2"} |->
                        IF s = StoreId
                        THEN UpdatedStore(RegisteredStore, RegisteredStore, vd)
                        ELSE SecondStore(place)]
        /\ scans = <<ScanOf("s2", OldShelf, 2), ScanOf("s2", ShelfVision, 7),
                     ScanOf(StoreId, vd, day)>>
        /\ detected_products =
              ProductsOf(1, "s2", OldShelf, 2) \o ProductsOf(2, "s2", ShelfVision, 7)
                 \o ProductsOf(3, StoreId, vd, day)
        /\ debate_rounds = RoundsOfRun(1) \o RoundsOfRun(2) \o RoundsOfRun(3)
        /\ voice_notes =
              <<VoiceNoteRow(1, "s2", RunVoice, JStr(HindiText)),
                VoiceNoteRow(2, "s2", RunVoice, JStr(HindiText)),
                VoiceNoteRow(3, StoreId, RunVoice, JStr(HindiText))>>
        /\ whatsapp_messages = <<>>
        /\ neighborhood_demand =
              UpdatedDemand(
                 UpdatedDemand(
                    IF place.pincode = Pincode THEN <<InitialDemand>>
                    ELSE <<InitialDemand, InitialRow(place.pincode, place.city, 1)>>,
                    place.pincode, OldShelf),
                 place.pincode, ShelfVision)
        /\ settings = [OPENAI_API_KEY |-> TRUE, GROQ_API_KEY |-> FALSE,
                       TOGETHER_API_KEY |-> FALSE, TWILIO |-> FALSE]
        /\ outbox = <<>>
        /\ nreq = 3
        /\ path = "direct"
        /\ pc = "ss_neighborhood"
        /\ req = [store_id |-> StoreId, from_number |-> "", media_url |-> "",
                 num_media |-> 0]
        /\ store = RegisteredStore
        /\ scan_id = 3
        /\ vision_data = vd
        /\ round_i = 3
        /\ debate_result = [rounds |-> RunRounds, final_recommendation |-> JStr(HindiText)]
        /\ voice = RunVoice
        /\ voice_err = ""
        /\ exc = ""
        /\ swallowed = FALSE
        /\ response = NoResponse
        /\ p = None
        /\ critic = None
        /\ d = None
        /\ calls = <<>>
        /\ agg = [a \in Aggregators |-> IdleJob]
        /\ reg = IdleRegistration
        /\ fn_arg = <<>>
        /\ fn_ret = <<>>
        /\ parked = NoRun

AggNext ==
    \/ SsNeighborhood
    \/ \E a \in Aggregators :
          \/ AggSelectScans(a)
          \/ AggSelectStores(a)
          \/ AggSelectProducts(a)
          \/ AggSelectExisting(a)
          \/ AggWrite(a)
    \/ RegisterRequest
    \/ RegCheckExisting
    \/ RegInsertStore
    \/ InitCheckExisting
    \/ InitInsert

SpecAgg == AggInit /\ [][AggNext]_vars

\* ------------------------------------------ the helpers called on their own
\* The longest product list the vision analysis hands to the helpers here.
MaxProducts == 19

\* The stock level of product i of a shelf whose first ok products are
\* stocked: ok and overstocked, then critical and low, in turn.
LevelOf(i, ok) ==
    IF i <= ok THEN (IF i % 2 = 1 THEN "ok" ELSE "overstocked")
    ELSE (IF (i - ok) % 2 = 1 THEN "critical" ELSE "low")

\* A vision result of total products: the first ok of them stocked, the
\* last facing_ok of them correctly faced.
Shelf(total, ok, facing_ok) ==
    LET products == [i \in 1..total |->
                        Product(ToString(i), "Staples", LevelOf(i, ok),
                                i > total - facing_ok)]
        levels(l) == Cardinality({i \in 1..total : products[i].stock_level = l})
    IN  [products |-> products,
         critical_count |-> levels("critical"), low_count |-> levels("low"),
         top_restock_urgent |->
             [i \in 1..(IF total - ok < 3 THEN total - ok ELSE 3) |->
                 products[ok + i].name]]

Shelves ==
    UNION {{Shelf(total, ok, facing_ok) : ok \in 0..total, facing_ok \in 0..total} :
              total \in 0..MaxProducts}

\* The helper's caller has every credential; nothing else is going on.
HelperInit ==
    /\ settings = [OPENAI_API_KEY |-> TRUE, GROQ_API_KEY |-> TRUE,
                   TOGETHER_API_KEY |-> TRUE, TWILIO |-> TRUE]
    /\ Quiet
    /\ fn_arg \in Shelves
    /\ fn_ret = <<>>

helper_frame ==
    <<pipeline, stores, scans, detected_products, debate_rounds, voice_notes,
      whatsapp_messages, neighborhood_demand, today, agg, reg, fn_arg, parked>>

\* _calculate_health_score(vision_data)
CalculateHealthScore ==
    /\ fn_ret = <<>>
    /\ fn_ret' = <<[fn |-> "_calculate_health_score",
                    value |-> _calculate_health_score(fn_arg)]>>
    /\ UNCHANGED helper_frame

\* run_presenter(vision_data, store_info), whatever the provider answers
RunPresenter ==
    /\ fn_ret = <<>>
    /\ \E reply \in GenaiReplies :
          fn_ret' = <<[fn |-> "run_presenter", reply |-> reply,
                       value |-> run_presenter(fn_arg, RegisteredStore, reply)]>>
    /\ UNCHANGED helper_frame

HelperNext == CalculateHealthScore \/ RunPresenter

SpecHelpers == HelperInit /\ [][HelperNext]_vars

\* --------------------------------------------- the Normalizer on its own
\* The longest core of a provider text, in tokens.
MaxText == 3

TextTokens ==
    {"FJ", "F", "NL", "LB", "RB", "LS", "RS", "NUM", "STR", "X", "k_a",
     "k_note_fence"}

\* Every token sequence of at most n tokens.
RECURSIVE TextsUpTo(_)
TextsUpTo(n) ==
    IF n = 0 THEN {<<>>}
    ELSE LET shorter == TextsUpTo(n - 1)
         IN  shorter \cup {<<tok>> \o t : tok \in TextTokens,
                                           t \in {u \in shorter : Len(u) = n - 1}}

\* A reply of one word repeated, one token longer than the excerpt kept.
LongGarbage == [i \in 1..(RawLimit + 1) |-> "X"]

Cores == TextsUpTo(MaxText) \cup {LongGarbage}

\* What a provider puts around the core of its reply: nothing, a fenced
\* block (```json or ```), words before or after it, a stray brace, a list.
Wraps ==
    {[pre |-> <<>>, post |-> <<>>],
     [pre |-> <<"FJ", "NL">>, post |-> <<"NL", "F">>],
     [pre |-> <<"F", "NL">>, post |-> <<"NL", "F">>],
     [pre |-> <<"X", "SP">>, post |-> <<>>],
     [pre |-> <<>>, post |-> <<"SP", "X">>],
     [pre |-> <<"X", "SP">>, post |-> <<"SP", "X">>],
     [pre |-> <<>>, post |-> <<"SP", "RB">>],
     [pre |-> <<"LB", "SP">>, post |-> <<>>],
     [pre |-> <<"LS">>, post |-> <<"RS">>]}

NormalizerInit ==
    /\ settings = [OPENAI_API_KEY |-> TRUE, GROQ_API_KEY |-> TRUE,
                   TOGETHER_API_KEY |-> TRUE, TWILIO |-> TRUE]
    /\ Quiet
    /\ \E core \in Cores, wrap \in Wraps :
          fn_arg = [core |-> core, pre |-> wrap.pre, post |-> wrap.post,
                    text |-> wrap.pre \o core \o wrap.post]
    /\ fn_ret = <<>>

\* _parse_json(text)
ParseJson ==
    /\ fn_ret = <<>>
    /\ fn_ret' = <<[fn |-> "_parse_json", value |-> _parse_json(fn_arg.text)]>>
    /\ UNCHANGED helper_frame

\* analyze_shelf_image(image_url, image_bytes), the provider answering
\* with the text
AnalyzeShelfImage ==
    /\ fn_ret = <<>>
    /\ fn_ret' = <<[fn |-> "analyze_shelf_image",
                    value |-> analyze_shelf_image(fn_arg.text)]>>
    /\ UNCHANGED helper_frame

NormalizerNext == ParseJson \/ AnalyzeShelfImage

SpecNormalizer == NormalizerInit /\ [][NormalizerNext]_vars

\* ------------------------------------------- two requests on one event loop
\* The handlers are coroutines of one event loop: one runs at a time, and
\* another one can run while it is suspended in an await that really waits.
\* Every run waits for the speech synthesis request (voice_service.py:19-20,
\* an httpx call), which lies between its read of the store row and its
\* write of the scan count.
AwaitPoints == {"ss_voice"}

\* The locals of the handler that is running.
Running ==
    [path |-> path, pc |-> pc, req |-> req, store |-> store, scan_id |-> scan_id,
     vision_data |-> vision_data, round_i |-> round_i,
     debate_result |-> debate_result, voice |-> voice, voice_err |-> voice_err,
     exc |-> exc, swallowed |-> swallowed, response |-> response, p |-> p,
     critic |-> critic, d |-> d, calls |-> calls]

\* A request for a scan of the first store that has just arrived.
ArrivedRequest ==
    [NoRun EXCEPT !.path = "direct", !.pc = "ss_verify",
                  !.req = [store_id |-> StoreId, from_number |-> "", media_url |-> "",
                 num_media |-> 0]]

\* The handler with the locals l is the one that runs.
Runs(l) ==
    /\ path = l.path
    /\ pc = l.pc
    /\ req = l.req
    /\ store = l.store
    /\ scan_id = l.scan_id
    /\ vision_data = l.vision_data
    /\ round_i = l.round_i
    /\ debate_result = l.debate_result
    /\ voice = l.voice
    /\ voice_err = l.voice_err
    /\ exc = l.exc
    /\ swallowed = l.swallowed
    /\ response = l.response
    /\ p = l.p
    /\ critic = l.critic
    /\ d = l.d
    /\ calls = l.calls

\* The running handler is suspended (or has returned) and the event loop
\* resumes the other one.
RaceSwitch ==
    /\ pc \in AwaitPoints \cup {"done"}
    /\ parked.pc /= "done"
    /\ parked' = Running
    /\ path' = parked.path
    /\ pc' = parked.pc
    /\ req' = parked.req
    /\ store' = parked.store
    /\ scan_id' = parked.scan_id
    /\ vision_data' = parked.vision_data
    /\ round_i' = parked.round_i
    /\ debate_result' = parked.debate_result
    /\ voice' = parked.voice
    /\ voice_err' = parked.voice_err
    /\ exc' = parked.exc
    /\ swallowed' = parked.swallowed
    /\ response' = parked.response
    /\ p' = parked.p
    /\ critic' = parked.critic
    /\ d' = parked.d
    /\ calls' = parked.calls
    /\ UNCHANGED <<settings, tables, outbox, nreq, today, agg, reg, fn_arg, fn_ret>>

\* A first request for the same store whose providers all answered: it has
\* read the store row, written its scan, product and round rows, and waits
\* for the speech synthesis.
SuspendedRun(vd) ==
    [ArrivedRequest EXCEPT
        !.pc = "ss_voice", !.store = RegisteredStore, !.scan_id = 1,
        !.vision_data = vd, !.round_i = 3,
        !.debate_result = [rounds |-> RunRounds,
                           final_recommendation |-> JStr(HindiText)]]

\* The first request is suspended in the synthesis call when the second
\* one arrives and starts.
RaceInit ==
    /\ today = 1
    /\ settings = [OPENAI_API_KEY |-> TRUE, GROQ_API_KEY |-> FALSE,
                   TOGETHER_API_KEY |-> FALSE, TWILIO |-> FALSE]
    /\ \E vd \in VisionResults :
          /\ parked = SuspendedRun(vd)
          /\ detected_products = ProductRows(1, StoreId, vd)
    /\ stores = [s \in {StoreId} |-> RegisteredStore]
    /\ scans = <<ScanRow(StoreId)>>
    /\ debate_rounds = RoundsOfRun(1)
    /\ voice_notes = <<>>
    /\ whatsapp_messages = <<>>
    /\ neighborhood_demand = <<InitialDemand>>
    /\ outbox = <<>>
    /\ nreq = 2
    /\ Runs(ArrivedRequest)
    /\ agg = [a \in Aggregators |-> IdleJob]
    /\ reg = IdleRegistration
    /\ fn_arg = <<>>
    /\ fn_ret = <<>>

RaceNext ==
    \/ SsVerifyStore
    \/ SsUploadImage
    \/ SsInsertScan
    \/ SsVision
    \/ SsInsertProducts
    \/ SsInsertRound
    \/ SsVoice
    \/ SsInsertVoiceNote
    \/ SsCompleteScan
    \/ SsUpdateStore
    \/ SsNeighborhood
    \/ SsExcept
    \/ DebatePresenter
    \/ DebateCriticGpt4o
    \/ DebateCriticGroq
    \/ DebateCriticTogether
    \/ DebateCriticFallback
    \/ DebateDecider
    \/ DebateReturn
    \/ RaceSwitch

SpecRace == RaceInit /\ [][RaceNext]_vars

\* ------------------------------------- a third request on the same loop
\* The voice and the recommendation of the second request, which ran from
\* its arrival to its return while the first one was suspended.
SecondVoice == [audio_url |-> VoiceUrl, duration |-> 5]

SecondRecommendation == JStr(HindiText)

\* The tables after the second request has returned: its scan is completed,
\* its rows are written, and the store row holds the count it wrote.
SecondReturned(vd) ==
    /\ detected_products =
          ProductRows(1, StoreId, vd) \o ProductRows(2, StoreId, ShelfVision)
    /\ stores = [s \in {StoreId} |->
                    UpdatedStore(RegisteredStore, RegisteredStore, ShelfVision)]
    /\ scans = <<ScanRow(StoreId),
                 CompletedScan(ScanRow(StoreId), ShelfVision, SecondRecommendation,
                               SecondVoice.audio_url)>>
    /\ debate_rounds = RoundsOfRun(1) \o RoundsOfRun(2)
    /\ voice_notes = <<VoiceNoteRow(2, StoreId, SecondVoice, SecondRecommendation)>>
    /\ whatsapp_messages = <<>>
    /\ neighborhood_demand = UpdatedDemand(<<InitialDemand>>, Pincode, ShelfVision)
    /\ outbox = <<>>

\* The first request is still suspended in the synthesis call, the second
\* one has returned, and a third one arrives and starts.
ThirdInit ==
    /\ today = 1
    /\ settings = [OPENAI_API_KEY |-> TRUE, GROQ_API_KEY |-> FALSE,
                   TOGETHER_API_KEY |-> FALSE, TWILIO |-> FALSE]
    /\ \E vd \in VisionResults :
          /\ parked = SuspendedRun(vd)
          /\ SecondReturned(vd)
    /\ nreq = 3
    /\ Runs(ArrivedRequest)
    /\ agg = [a \in Aggregators |-> IdleJob]
    /\ reg = IdleRegistration
    /\ fn_arg = <<>>
    /\ fn_ret = <<>>

SpecThird == ThirdInit /\ [][RaceNext]_vars
\* ------------------------------------------------------------ properties
\* The Critic candidates in the order run_ai_debate consults them.
CriticOrder ==
    <<"GPT-4o Mini", "Groq LLaMA-3.1-70B", "Together Mixtral-8x7B",
      "Gemini Flash (Critic Fallback)">>

Rank(provider) == CHOOSE i \in 1..Len(CriticOrder) : CriticOrder[i] = provider

\* Whether a candidate's credential is set; Gemini Flash has no test of
\* its own, the Gemini key is set in config.py itself.
Configured(provider) ==
    CASE provider = "GPT-4o Mini" -> settings.OPENAI_API_KEY
      [] provider = "Groq LLaMA-3.1-70B" -> settings.GROQ_API_KEY
      [] provider = "Together Mixtral-8x7B" -> settings.TOGETHER_API_KEY
      [] OTHER -> TRUE

\* A candidate's call failed: the call raised or timed out, the status was
\* not 200, or the reply was JSON but no mapping (so that .get raised).
Failed(reply) ==
    \/ reply.kind \in {"exception", "timeout", "non200"}
    \/ reply.kind = "ok" /\ _parse_json(reply.text).kind /= "dict"

\* A reply with status 200 that normalizes to the parse-failure marker.
MarkerReply(reply) == reply.kind = "ok" /\ IsMarker(_parse_json(reply.text))

IsCriticCall(c) == \E i \in 1..Len(CriticOrder) : CriticOrder[i] = c.provider

\* The calls the Critic stage has made, in order.
CriticCalls == SelectSeq(calls, IsCriticCall)

\* The Critic stage of the running debate is over.
ChainDone == pc \in {"db_decider", "db_return"}

\* C4: the Critic candidates are called in the fixed order GPT-4o Mini, Groq,
\* Together, Gemini Flash; a candidate is called only if every candidate
\* before it was unconfigured or was called and failed (exception, timeout
\* and non-success status alike); the Critic record is the one of the last
\* candidate called, which is the first that did not fail, and every call
\* before it failed.
CriticChainOrder ==
    ChainDone =>
        LET cc == CriticCalls
            n == Len(cc)
        IN  /\ n >= 1
            /\ \A i, j \in 1..n : i < j => Rank(cc[i].provider) < Rank(cc[j].provider)
            /\ \A i \in 1..n :
                  \A r \in 1..(Rank(cc[i].provider) - 1) :
                      \/ ~Configured(CriticOrder[r])
                      \/ \E j \in 1..(i - 1) :
                            cc[j].provider = CriticOrder[r] /\ Failed(cc[j].reply)
            /\ \A i \in 1..(n - 1) : Failed(cc[i].reply)
            /\ critic.agent = cc[n].provider
            /\ ~Failed(cc[n].reply) =>
                  critic.output = _parse_json(cc[n].reply.text).d
            /\ Failed(cc[n].reply) => cc[n].provider = CriticOrder[Len(CriticOrder)]

\* C4 witness: GPT-4o Mini timed out, Groq answered with a non-success
\* status, Together succeeded and Gemini Flash was not called.
CriticChainOrderWitness ==
    /\ pc = "db_decider"
    /\ Len(CriticCalls) = 3
    /\ CriticCalls[1] = Call("GPT-4o Mini", TimedOut)
    /\ CriticCalls[2] = Call("Groq LLaMA-3.1-70B", Non200)
    /\ CriticCalls[3] = Call("Together Mixtral-8x7B", Ok(TextFenced))
    /\ critic.agent = "Together Mixtral-8x7B"

\* C5: when every candidate is unconfigured or fails, Gemini Flash included,
\* the debate goes on to the Decider with a Critic record that carries the
\* agent 'Gemini Flash (Critic Fallback)', the confidence 55 and the default
\* critique, whose accepted, challenged and rejected lists are empty.
CriticFallbackRecord ==
    (ChainDone /\ \A i \in 1..Len(CriticCalls) : Failed(CriticCalls[i].reply)) =>
        /\ critic.agent = "Gemini Flash (Critic Fallback)"
        /\ critic.type = "critic"
        /\ critic.confidence = JNum(55)
        /\ critic.output = FallbackCritique
        /\ \A k \in {"accepted", "challenged", "rejected"} : critic.output[k] = JList(<<>>)
        /\ critic.output["confidence_score"] = JNum(55)
        /\ Len(debate_result.rounds) >= 2
        /\ debate_result.rounds[2].agent = "Gemini Flash (Critic Fallback)"

\* C5 witness: all three credentials are set and all four candidates failed,
\* each in its own way.
CriticFallbackRecordWitness ==
    /\ pc = "db_decider"
    /\ Len(CriticCalls) = 4
    /\ CriticCalls[1].reply = Raised
    /\ CriticCalls[2].reply = Non200
    /\ CriticCalls[3].reply = TimedOut
    /\ CriticCalls[4].reply = Raised
    /\ critic.error

\* C6 as stated: the record the chain accepts never carries the parse-failure
\* marker, a candidate whose reply normalizes to it counts as failed.
CriticNeverAcceptsMarker ==
    ChainDone =>
        /\ "parse_error" \notin DOMAIN critic.output
        /\ \A i \in 1..Len(CriticCalls) :
              MarkerReply(CriticCalls[i].reply) =>
                  \/ i < Len(CriticCalls)
                  \/ critic.error

\* C6 as amended: a configured candidate whose reply has status 200 and
\* normalizes to the parse-failure marker is accepted: it is the last
\* candidate called and the Critic record is its record, with the marker as
\* output and the candidate's default confidence.
CriticAcceptsMarker ==
    ChainDone =>
        \A i \in 1..Len(CriticCalls) :
            MarkerReply(CriticCalls[i].reply) =>
                /\ i = Len(CriticCalls)
                /\ critic.agent = CriticCalls[i].provider
                /\ critic.output = _parse_json(CriticCalls[i].reply.text).d
                /\ critic.output["parse_error"] = JTrue
                /\ critic.confidence =
                      JNum(CASE critic.agent = "GPT-4o Mini" -> 80
                             [] critic.agent = "Groq LLaMA-3.1-70B" -> 76
                             [] critic.agent = "Together Mixtral-8x7B" -> 74
                             [] OTHER -> 70)

\* C6 witness: GPT-4o Mini, the first candidate, answered with text that no
\* strategy parses, Groq is configured too and was not called.
CriticAcceptsMarkerWitness ==
    /\ pc = "db_decider"
    /\ settings.GROQ_API_KEY
    /\ CriticCalls = <<Call("GPT-4o Mini", Ok(TextGarbage))>>
    /\ IsMarker([kind |-> "dict", d |-> critic.output])

\* C7: a candidate whose credential is not set is not called, its step
\* leaves the Critic record and the calls made as they were, and the chain
\* goes on to the next candidate.
UnconfiguredNeverInvoked ==
    [][/\ (pc = "db_gpt4o" /\ ~settings.OPENAI_API_KEY) =>
            (critic' = critic /\ calls' = calls /\ pc' = "db_groq")
       /\ (pc = "db_groq" /\ ~settings.GROQ_API_KEY) =>
            (critic' = critic /\ calls' = calls /\ pc' = "db_together")
       /\ (pc = "db_together" /\ ~settings.TOGETHER_API_KEY) =>
            (critic' = critic /\ calls' = calls /\ pc' = "db_flash")
       /\ \A i \in 1..Len(calls') :
            IsCriticCall(calls'[i]) => Configured(calls'[i].provider)]_vars

\* C7 witness: only Together's credential is set, and Together is the
\* first and only candidate called.
UnconfiguredNeverInvokedWitness ==
    /\ pc = "db_decider"
    /\ ~settings.OPENAI_API_KEY
    /\ ~settings.GROQ_API_KEY
    /\ settings.TOGETHER_API_KEY
    /\ Len(CriticCalls) = 1
    /\ CriticCalls[1].provider = "Together Mixtral-8x7B"

\* C8: run_ai_debate returns exactly three rounds, the Presenter's, the
\* Critic's and the Decider's in this order, each with its stage role and
\* the agent of its stage record.
ThreeRounds ==
    pc = "db_return" =>
        /\ Len(debate_result.rounds) = 3
        /\ debate_result.rounds[1] = Round(p, "presenter")
        /\ debate_result.rounds[2] = Round(critic, "critic")
        /\ debate_result.rounds[3] = Round(d, "decider")
        /\ <<p.type, critic.type, d.type>> = <<"presenter", "critic", "decider">>
        /\ <<debate_result.rounds[1].type, debate_result.rounds[2].type,
             debate_result.rounds[3].type>> = <<"presenter", "critic", "decider">>

\* C8 witness: the Presenter's call raised, every Critic candidate failed
\* and the Decider's reply was unparseable.
ThreeRoundsWitness ==
    /\ pc = "db_return"
    /\ p.error
    /\ critic.error
    /\ Len(calls) = 6
    /\ calls[3].reply = TimedOut
    /\ calls[6].reply = Ok(TextGarbage)

\* The Decider's record carries no recommendation text.
DeciderHasNoText ==
    /\ ~Truthy(d.final_hindi_text)
    /\ ~Truthy(Get(d.output, "final_hindi_text", JStr(<<>>)))

\* C9: the final recommendation run_ai_debate returns is a non-empty
\* string, and it is the last-resort sentence when the Decider's record
\* carries no recommendation text.
FinalRecommendationNonEmpty ==
    pc = "db_return" =>
        /\ debate_result.final_recommendation.t = "str"
        /\ debate_result.final_recommendation.s /= <<>>
        /\ DeciderHasNoText =>
              debate_result.final_recommendation = SynthesizedSentence(vision_data, store)

\* C9 witness: the Decider's reply normalized to the parse-failure marker.
FinalRecommendationNonEmptyWitness ==
    /\ pc = "db_return"
    /\ "parse_error" \in DOMAIN d.output
    /\ DeciderHasNoText
    /\ debate_result.final_recommendation = SynthesizedSentence(vision_data, store)

IsScan(sid) == sid \in 1..Len(scans)

\* The debate_rounds rows of a scan, in insertion order.
RoundsOf(sid) ==
    LET idx == {i \in 1..Len(debate_rounds) : debate_rounds[i].scan_id = sid}
        RECURSIVE Collect(_)
        Collect(i) ==
            IF i > Len(debate_rounds) THEN <<>>
            ELSE IF i \in idx THEN <<debate_rounds[i]>> \o Collect(i + 1)
            ELSE Collect(i + 1)
    IN  Collect(1)

\* The voice_notes rows of a scan.
VoiceNotesOf(sid) == {i \in 1..Len(voice_notes) : voice_notes[i].scan_id = sid}

\* C1 as stated: every scan row with a terminal status, completed or failed,
\* has exactly 3 debate_rounds rows.
TerminalScanHasThreeRounds ==
    \A sid \in 1..Len(scans) :
        scans[sid].status \in {"completed", "failed"} => Len(RoundsOf(sid)) = 3

\* C1 as amended: every scan row with status completed has exactly 3
\* debate_rounds rows, the Presenter's, the Critic's and the Decider's in
\* this order, whichever credentials are set and whichever providers fail.
CompletedScanHasThreeRounds ==
    \A sid \in 1..Len(scans) :
        scans[sid].status = "completed" =>
            /\ Len(RoundsOf(sid)) = 3
            /\ RoundsOf(sid)[1].agent_type = "presenter"
            /\ RoundsOf(sid)[2].agent_type = "critic"
            /\ RoundsOf(sid)[3].agent_type = "decider"

\* C1 witness: no Critic credential is set, the scan is completed and its
\* second round is the fallback Critic's.
CompletedScanHasThreeRoundsWitness ==
    /\ pc = "done"
    /\ IsScan(scan_id)
    /\ scans[scan_id].status = "completed"
    /\ ~settings.OPENAI_API_KEY /\ ~settings.GROQ_API_KEY /\ ~settings.TOGETHER_API_KEY
    /\ Len(RoundsOf(scan_id)) = 3
    /\ RoundsOf(scan_id)[2].agent_name = "Gemini Flash (Critic Fallback)"

\* C2: a scan row that is completed is never written failed afterwards, and
\* one that is failed is never written completed.
StatusNeverReverts ==
    [][\A sid \in 1..Len(scans) :
          /\ scans[sid].status = "completed" => scans'[sid].status = "completed"
          /\ scans[sid].status = "failed" => scans'[sid].status = "failed"]_vars

\* C3: when a step after the insert of the scan row has failed and the run
\* is over, in either entry path, the scan row is failed and holds the
\* error text (the case that the update writing this raised itself, which
\* scan_shelf swallows, is left aside).
FailureMarksScanFailed ==
    (pc = "done" /\ IsScan(scan_id) /\ exc /= "" /\ ~swallowed) =>
        /\ scans[scan_id].status = "failed"
        /\ scans[scan_id].error_message = exc

\* C10: when the synthesis has failed (the provider call or the audio
\* upload), the pipeline goes on with an empty voice reference; a run that
\* ends without an exception leaves the scan completed, with an empty voice
\* reference on the scan row and on its voice_notes row; and the scan row
\* never holds the synthesis failure as its error.
VoiceFailureStillCompletes ==
    (IsScan(scan_id) /\ voice_err /= "") =>
        /\ voice = NoVoice
        /\ scans[scan_id].error_message /= voice_err
        /\ pc \in {"ss_voice_note", "wa_voice_note"} =>
              exc = "" /\ scans[scan_id].status = "processing"
        /\ \A i \in VoiceNotesOf(scan_id) : voice_notes[i].audio_url = ""
        /\ scans[scan_id].status = "completed" => scans[scan_id].voice_note_url = ""
        /\ (pc = "done" /\ exc = "") =>
              /\ scans[scan_id].status = "completed"
              /\ VoiceNotesOf(scan_id) /= {}

\* C10 witness: in the messaging path the provider answered and the audio
\* upload failed; the run is over and the scan is completed without a voice
\* reference.
VoiceFailureStillCompletesWitness ==
    /\ pc = "done"
    /\ path = "whatsapp"
    /\ IsScan(scan_id)
    /\ voice_err = "Cloudinary audio upload failed"
    /\ exc = ""
    /\ scans[scan_id].status = "completed"
    /\ scans[scan_id].voice_note_url = ""
    /\ \E i \in VoiceNotesOf(scan_id) : voice_notes[i].audio_url = ""


\* C11: when the vision analysis has raised and the run is over, in either
\* entry path, the scan row is failed and holds the error text, and no
\* debate_rounds or voice_notes row exists for it (the case that the update
\* writing the failure raised itself, which scan_shelf swallows, is left
\* aside).
VisionFailureMarksScanFailed ==
    (pc = "done" /\ IsScan(scan_id) /\ exc = VisionError /\ ~swallowed) =>
        /\ scans[scan_id].status = "failed"
        /\ scans[scan_id].error_message = VisionError
        /\ RoundsOf(scan_id) = <<>>
        /\ VoiceNotesOf(scan_id) = {}

\* The run's target store does not exist (the store id of the direct
\* request, or the sender's number of the messaging request, has no stores
\* row), or storing the image has failed.
StoreMissing ==
    \/ path = "direct" /\ req.store_id \notin DOMAIN stores
    \/ path = "whatsapp" /\ StoreOfNumber(req.from_number) = ""

RejectedEarly == pc /= "idle" /\ (StoreMissing \/ exc = UploadError)

\* C12: a run whose store does not exist or whose image upload failed has
\* created no scan row, and (seen on the first request, which starts from
\* empty tables) no scans, detected_products, debate_rounds or voice_notes
\* row exists; when it is over, the direct request has got 404 for the
\* missing store (500 when the lookup itself raised) and 500 with the error
\* text for the failed upload, and the messaging run has not sent a report:
\* its last message, if the send went through, is the registration prompt
\* or the apology.
EarlyFailureWritesNothing ==
    RejectedEarly =>
        /\ scan_id = 0
        /\ nreq = 1 => /\ scans = <<>>
                       /\ detected_products = <<>>
                       /\ debate_rounds = <<>>
                       /\ voice_notes = <<>>
        /\ (pc = "done" /\ path = "direct") =>
              /\ response.body = "error"
              /\ (StoreMissing /\ exc = "") => response.status = 404
              /\ exc /= "" => response.status = 500 /\ response.detail = exc
        /\ (pc = "done" /\ path = "whatsapp") =>
              \A i \in 1..Len(outbox) : outbox[i] \in {RegisterPrompt, Apology}

\* C12 witness: in the messaging path the image upload failed; the run is
\* over, the apology is sent and no scan row exists.
EarlyFailureWritesNothingWitness ==
    /\ pc = "done"
    /\ path = "whatsapp"
    /\ exc = UploadError
    /\ outbox = <<Apology>>
    /\ scans = <<>>

\* C12, second case: the direct request names an unknown store and is
\* answered 404.
StoreNotFoundWitness ==
    /\ pc = "done"
    /\ path = "direct"
    /\ req.store_id \notin DOMAIN stores
    /\ response.status = 404
    /\ scans = <<>>

\* build_processing_twiml(): the static acknowledgment.
ProcessingAck == [status |-> 200, body |-> "processing started", detail |-> ""]

\* C13: the step that enqueues the background run has already produced the
\* static acknowledgment as the webhook's response, and no step of that run
\* (whether it succeeds, fails or stops for good) changes the response.
AckIndependentOfRun ==
    [][/\ (path' = "whatsapp" /\ pc' = "wa_start") => response' = ProcessingAck
       /\ (path = "whatsapp" /\ pc \notin {"idle", "done"}) =>
             response = ProcessingAck /\ response' = response]_vars

\* C13 witness: the background run has failed at the vision analysis and is
\* over; the response is the acknowledgment.
AckIndependentOfRunWitness ==
    /\ pc = "done"
    /\ path = "whatsapp"
    /\ exc = VisionError
    /\ response = ProcessingAck

\* C13, second case: the run has gone through and the report is sent; the
\* response is the acknowledgment.
AckAfterSuccessWitness ==
    /\ pc = "done"
    /\ path = "whatsapp"
    /\ exc = ""
    /\ IsScan(scan_id)
    /\ scans[scan_id].status = "completed"
    /\ response = ProcessingAck

\* C14: the webhook step, from the inbound event to the response, writes no
\* table of the store and sends no message.
WebhookCallsNoCollaborator ==
    [][(pc \in {"idle", "done"} /\ path' = "whatsapp" /\ nreq' = nreq + 1) =>
          UNCHANGED <<tables, outbox>>]_vars

\* C15: when the background run of an acknowledged image message is over,
\* with the messaging credentials set, and has left its scan completed, the
\* report (the voice asset when the voice reference is not empty, the text
\* carrying the recommendation otherwise) is among the messages sent and the
\* apology is not; the case that the sending of the report itself raised is
\* left aside.
OutboundChosenByOutcome ==
    (/\ pc = "done" /\ path = "whatsapp" /\ response = ProcessingAck
     /\ settings.TWILIO
     /\ IsScan(scan_id) /\ scans[scan_id].status = "completed"
     /\ exc /= TwilioError) =>
        /\ \E i \in 1..Len(outbox) : outbox[i] = Report
        /\ \A i \in 1..Len(outbox) : outbox[i] /= Apology

\* The error texts a step of the messaging run can raise or record.
ErrorDetails ==
    {DbError, UploadError, VisionError, MediaError, TwilioError,
     "ElevenLabs request failed", "ElevenLabs API error",
     "Cloudinary audio upload failed"}

\* C16: every message the messaging run sends is the fixed apology, or, from
\* a run in which nothing has failed, the registration prompt or the report,
\* whose recommendation text holds no error text; so after a failure the
\* apology is the only message sent and no body carries the error detail.
OnlyApologyOnFailure ==
    [][outbox' /= outbox =>
          \/ pc = "wa_except" /\ outbox' = Append(outbox, Apology)
          \/ /\ pc = "wa_unregistered" /\ exc = ""
             /\ outbox' = Append(outbox, RegisterPrompt)
          \/ /\ pc = "wa_send" /\ exc = ""
             /\ outbox' = Append(outbox, Report)
             /\ \A j \in 1..Len(debate_result.final_recommendation.s) :
                   debate_result.final_recommendation.s[j] \notin ErrorDetails]_vars

\* C16 witness: the product insert of the messaging run has failed; the run
\* is over and the one message sent is the apology.
OnlyApologyOnFailureWitness ==
    /\ pc = "done"
    /\ path = "whatsapp"
    /\ IsScan(scan_id)
    /\ exc = DbError
    /\ detected_products = <<>>
    /\ outbox = <<Apology>>

\* C20: the inline neighborhood update, whether it goes through or fails,
\* leaves the scans table and the run's exception as they are: the scan is
\* completed before it and after it, the direct request is answered with
\* the result, and the messaging run goes on to send the report.
InlineUpdateKeepsOutcome ==
    [][/\ pc \in {"ss_neighborhood", "wa_neighborhood"} =>
             /\ scans[scan_id].status = "completed"
             /\ scans' = scans
             /\ exc = "" /\ exc' = ""
       /\ pc = "ss_neighborhood" =>
             /\ pc' = "done"
             /\ response' = [status |-> 200, body |-> "result", detail |-> ""]
       /\ pc = "wa_neighborhood" => pc' = "wa_send"]_vars

\* C20 witness: the direct request is answered with the result and its scan
\* is completed, while the neighborhood row of the store's pincode is as it
\* was (an update that went through would have raised its store counter).
InlineUpdateKeepsOutcomeWitness ==
    /\ pc = "done"
    /\ path = "direct"
    /\ IsScan(scan_id)
    /\ scans[scan_id].status = "completed"
    /\ response.status = 200
    /\ store.pincode = Pincode
    /\ neighborhood_demand = <<InitialDemand>>

\* ------------------------------------------------- the aggregation job
\* The (pincode, week_start) keys a run started now writes: those of its
\* groups that have products in the window.
CurrentKeys ==
    {<<CurrentGroups[k].pincode, WeekStart(today)>> :
        k \in {k \in 1..Len(CurrentGroups) :
                  SelectProducts(CurrentGroups[k].store_ids) /= <<>>}}

RowsOfKey(nd, key) == Len(ExistingIds(nd, key[1], key[2]))

OneRowPerLocalityWeek ==
    \A i, j \in 1..Len(neighborhood_demand) :
        (/\ neighborhood_demand[i].pincode = neighborhood_demand[j].pincode
         /\ neighborhood_demand[i].week_start = neighborhood_demand[j].week_start)
        => i = j

\* C19: when an aggregation job that got its groups is over, every group
\* whose own requests did not fail and that has products in the window has
\* been upserted, a row with its key exists, and no group is both failed
\* and upserted; a job has no way to end but "done" (nothing is raised to
\* its caller).
BatchSurvivesFailure ==
    \A a \in Aggregators :
        (agg[a].pc = "done" /\ agg[a].groups /= <<>>) =>
            /\ \A k \in 1..Len(agg[a].groups) :
                  \/ k \in agg[a].failed
                  \/ k \in agg[a].upserted
                  \/ SelectProducts(agg[a].groups[k].store_ids) = <<>>
            /\ \A k \in agg[a].upserted :
                  ExistingIds(neighborhood_demand, agg[a].groups[k].pincode,
                              agg[a].week_start) /= <<>>
            /\ agg[a].upserted \cap agg[a].failed = {}

\* C19 witness: a job with two groups is over; the aggregation of its first
\* group failed and its second group is upserted.
BatchSurvivesFailureWitness ==
    \E a \in Aggregators :
        /\ agg[a].pc = "done"
        /\ Len(agg[a].groups) = 2
        /\ agg[a].failed = {1}
        /\ agg[a].upserted = {2}
        /\ ExistingIds(neighborhood_demand, agg[a].groups[2].pincode,
                       agg[a].week_start) /= <<>>

\* ------------------------------------------------------------ the helpers
HelperCalled(fn) == fn_ret /= <<>> /\ fn_ret[1].fn = fn

\* How many products of a vision result are stocked (ok or overstocked), and
\* how many are correctly faced.
StockedCount(vd) ==
    Cardinality({i \in 1..Len(vd.products) :
                    vd.products[i].stock_level \in {"ok", "overstocked"}})

FacingCount(vd) ==
    Cardinality({i \in 1..Len(vd.products) : vd.products[i].facing_correct})

\* floor(70 * stocked / N + 30 * faced / N) in exact arithmetic, clamped to
\* 0..100, and 0 when N = 0.
FloorScore(vd) ==
    LET total == Len(vd.products)
        exact == (70 * StockedCount(vd) + 30 * FacingCount(vd)) \div total
    IN  IF total = 0 THEN 0
        ELSE IF exact > 100 THEN 100 ELSE IF exact < 0 THEN 0 ELSE exact

\* C21: for every product list the health score is the floor of
\* 70 * stocked / N + 30 * faced / N clamped to 0..100, and 0 for the empty
\* list.
HealthScoreIsFloor ==
    HelperCalled("_calculate_health_score") =>
        fn_ret[1].value = FloorScore(fn_arg)

\* C22: whatever the text, the Normalizer returns a mapping: a parsed
\* object or the parse-failure marker, never a value of another kind.
NormalizerReturnsMapping ==
    HelperCalled("_parse_json") => fn_ret[1].value.kind = "dict"

\* The text the Normalizer's strategies work on: trimmed, without fences.
Defenced(text) == Strip(ReSubFence("F", ReSubFence("FJ", Strip(text))))

\* No strategy parses the text: neither the direct parse nor the parse of
\* the span from the first "{" to the last "}".
Unparseable(text) ==
    LET t == Defenced(text)
        m == BraceMatch(t)
    IN  ~JsonValid(t) /\ ~(m /= <<>> /\ JsonValid(m))

\* C23 as stated: for every text no strategy parses, the empty text and the
\* text of fences only included, the result is the marker with parse_error
\* true and a non-empty excerpt of at most 500 characters.
UnparseableGivesExcerpt ==
    (HelperCalled("_parse_json") /\ Unparseable(fn_arg.text)) =>
        LET v == fn_ret[1].value IN
        /\ IsMarker(v)
        /\ v.d["parse_error"] = JTrue
        /\ v.d["raw"].s /= <<>>
        /\ Len(v.d["raw"].s) <= RawLimit

\* C23: for every text no strategy parses, the result is the marker with
\* parse_error true, and its excerpt is the first 500 characters (all of
\* them when there are fewer) of the trimmed text without its fences; the
\* excerpt is empty exactly when the text has nothing but fences and
\* whitespace.
UnparseableGivesPrefix ==
    (HelperCalled("_parse_json") /\ Unparseable(fn_arg.text)) =>
        LET v == fn_ret[1].value
            raw == v.d["raw"].s
            t == Defenced(fn_arg.text)
        IN  /\ IsMarker(v)
            /\ DOMAIN v.d = {"raw", "parse_error"}
            /\ v.d["parse_error"] = JTrue
            /\ Len(raw) = (IF Len(t) < RawLimit THEN Len(t) ELSE RawLimit)
            /\ raw = SubSeq(t, 1, Len(raw))
            /\ (raw = <<>>) <=>
                  (\A i \in 1..Len(fn_arg.text) :
                      fn_arg.text[i] \in {"FJ", "F", "NL", "SP"})

\* C23 witness: a reply longer than the excerpt that no strategy parses has
\* come back as the marker, with the excerpt cut at 500.
UnparseableGivesPrefixWitness ==
    /\ HelperCalled("_parse_json")
    /\ Unparseable(fn_arg.text)
    /\ Len(Defenced(fn_arg.text)) > RawLimit
    /\ IsMarker(fn_ret[1].value)
    /\ Len(fn_ret[1].value.d["raw"].s) = RawLimit

\* A text of fences only has come back as the marker with an empty excerpt.
FenceOnlyWitness ==
    /\ HelperCalled("_parse_json")
    /\ fn_arg.core = <<>>
    /\ fn_arg.pre = <<"FJ", "NL">>
    /\ IsMarker(fn_ret[1].value)
    /\ fn_ret[1].value.d["raw"].s = <<>>

\* The core of the input is the text of one object.
ObjectCore ==
    /\ fn_arg.core /= <<>>
    /\ fn_arg.core[1] = "LB"
    /\ fn_arg.core[Len(fn_arg.core)] = "RB"
    /\ JsonValid(fn_arg.core)

\* The object is wrapped in a fenced block.
FencedInput ==
    fn_arg.pre \in {<<"FJ", "NL">>, <<"F", "NL">>} /\ fn_arg.post = <<"NL", "F">>

\* There is something before or after the object.
NoisyInput == ~FencedInput /\ (fn_arg.pre /= <<>> \/ fn_arg.post /= <<>>)

HarmlessNoise ==
    /\ \A i \in 1..Len(fn_arg.pre) : fn_arg.pre[i] \notin {"LB", "RB"}
    /\ \A i \in 1..Len(fn_arg.post) : fn_arg.post[i] \notin {"LB", "RB"}
    /\ ~(JsonValid(Defenced(fn_arg.text))
         /\ JsonLoads(Defenced(fn_arg.text)).kind /= "dict")

NoisyObjectWitness ==
    /\ HelperCalled("_parse_json")
    /\ fn_arg.core = <<"LB", "k_a", "RB">>
    /\ fn_arg.pre = <<"X", "SP">>
    /\ fn_arg.post = <<"SP", "X">>
    /\ fn_ret[1].value = JsonLoads(fn_arg.core)

\* ------------------------------------------------- two requests, one store
\* C25: a run writes as the store's scan count the count it read when it
\* started plus one, whatever has been written since; two runs of the same
\* store that both read before either writes therefore both complete with
\* the count raised by one only.
CountWrittenFromSnapshot ==
    [][stores' /= stores =>
          /\ pc = "ss_store"
          /\ stores'[req.store_id].total_scans = store.total_scans + 1]_vars

\* C25 witness: both requests have been answered with the result, both
\* scans of the store are completed, and the store's count went from 0 to 1.
CountWrittenFromSnapshotWitness ==
    /\ pc = "done" /\ response.status = 200
    /\ parked.pc = "done" /\ parked.response.status = 200
    /\ Len(scans) = 2
    /\ \A i \in 1..2 : scans[i].status = "completed" /\ scans[i].store_id = StoreId
    /\ RegisteredStore.total_scans = 0
    /\ stores[StoreId].total_scans = 1

\* ------------------------------------------------------------ registration
\* The pincode is exactly six digits.
SixDigits(v) ==
    Len(PincodeChars(v)) = 6 /\ \A i \in 1..6 : IsDigit(PincodeChars(v)[i])

\* C26: a registration whose pincode is not exactly six digits is rejected
\* by the validation, and no store row and no neighborhood_demand row with
\* that pincode is written.
BadPincodeRejected ==
    (reg.pc /= "idle" /\ ~SixDigits(reg.data.pincode)) =>
        /\ reg.pc = "done"
        /\ reg.status = 422
        /\ \A s \in DOMAIN stores : stores[s].pincode /= reg.data.pincode
        /\ \A i \in 1..Len(neighborhood_demand) :
              neighborhood_demand[i].pincode /= reg.data.pincode

\* A registration with a pincode of nine digits has been rejected.
NineDigitsRejectedWitness ==
    /\ reg.pc = "done"
    /\ reg.data.pincode = NineDigits
    /\ reg.status = 422
    /\ \A s \in DOMAIN stores : stores[s].pincode /= NineDigits

\* ------------------------------------------------- completed scans' rows
\* C27: in every state of either entry path, a scan row with status
\* completed has its three debate_rounds rows and exactly one voice_notes
\* row (written also when the audio reference is empty), and no scan has
\* more than one voice_notes row.
CompletedScanFullyPersisted ==
    \A sid \in 1..Len(scans) :
        /\ Cardinality(VoiceNotesOf(sid)) <= 1
        /\ scans[sid].status = "completed" =>
              /\ Len(RoundsOf(sid)) = 3
              /\ Cardinality(VoiceNotesOf(sid)) = 1

\* C27 witness: the direct request's synthesis gave no audio; the scan has
\* just been written completed, with three rounds and one voice_notes row
\* whose audio reference is empty.
CompletedScanFullyPersistedWitness ==
    /\ path = "direct"
    /\ pc = "ss_store"
    /\ IsScan(scan_id)
    /\ scans[scan_id].status = "completed"
    /\ voice = NoVoice
    /\ Len(RoundsOf(scan_id)) = 3
    /\ \E i \in VoiceNotesOf(scan_id) :
          VoiceNotesOf(scan_id) = {i} /\ voice_notes[i].audio_url = ""

\* C27 witness in the messaging path: the scan is completed with an audio
\* reference, three rounds and one voice_notes row.
CompletedWithAudioWitness ==
    /\ path = "whatsapp"
    /\ pc = "wa_store"
    /\ IsScan(scan_id)
    /\ scans[scan_id].status = "completed"
    /\ voice /= NoVoice
    /\ Len(RoundsOf(scan_id)) = 3
    /\ Cardinality(VoiceNotesOf(scan_id)) = 1

\* ------------------------------------------------------ the two entry paths
\* What a run has left in the tables for its scan: the scan row and the
\* numbers of its detected_products, debate_rounds and voice_notes rows.
Persisted(sid) ==
    [scan |-> scans[sid],
     products |-> Cardinality({i \in 1..Len(detected_products) :
                                  detected_products[i].scan_id = sid}),
     rounds |-> Len(RoundsOf(sid)),
     voice_notes |-> Cardinality(VoiceNotesOf(sid))]

\* What scan_shelf leaves for a store, a vision result, a debate result and
\* a voice outcome when every step succeeds, and when the vision analysis
\* raises.
LeftOnSuccess(st, vd, dr, v) ==
    [scan |-> CompletedScan(ScanRow(st.id), vd, dr.final_recommendation, v.audio_url),
     products |-> Len(vd.products),
     rounds |-> 3,
     voice_notes |-> 1]

LeftOnVisionFailure(st) ==
    [scan |-> FailedScan(ScanRow(st.id), VisionError),
     products |-> 0,
     rounds |-> 0,
     voice_notes |-> 0]

\* The outcomes that both paths can meet at steps they share: every step
\* succeeds, or the vision analysis raises.
SharedOutcome == exc \in {"", VisionError}

\* A run of the direct path whose outcome is shared leaves the state above
\* (the case that the failed-marking update raised, which scan_shelf
\* swallows, is left aside).
DirectPathLeaves ==
    (path = "direct" /\ pc = "done" /\ IsScan(scan_id) /\ SharedOutcome /\ ~swallowed) =>
        Persisted(scan_id) = IF exc = "" THEN LeftOnSuccess(store, vision_data, debate_result, voice)
                             ELSE LeftOnVisionFailure(store)

\* C28: for the same store, image and outcomes of the collaborators, a run
\* of the messaging path leaves the persisted state that a run of the
\* direct path leaves: the same scan status and fields, and the same
\* numbers of detected_products, debate_rounds and voice_notes rows, in
\* success runs and in failure runs.
PathsLeaveSameState ==
    (path = "whatsapp" /\ pc = "done" /\ IsScan(scan_id) /\ SharedOutcome) =>
        Persisted(scan_id) = IF exc = "" THEN LeftOnSuccess(store, vision_data, debate_result, voice)
                             ELSE LeftOnVisionFailure(store)

\* In success runs the messaging path does leave what the direct path
\* leaves.
PathsLeaveSameStateOnSuccess ==
    (path = "whatsapp" /\ pc = "done" /\ IsScan(scan_id) /\ exc = "") =>
        Persisted(scan_id) = LeftOnSuccess(store, vision_data, debate_result, voice)

\* ---------------------------------------------- the locality's weekly row
\* The pincodes of the stores that have scans in the window.
ActivePincodes == {stores[s].pincode : s \in Range(SelectStores(RecentStoreIds))}

\* The stores of a pincode that have scans in the window.
ActiveStoresOf(pincode) ==
    SelectSeq(SelectStores(RecentStoreIds), LAMBDA s : stores[s].pincode = pincode)

\* The row of a pincode for the current week is computed from the in-window
\* detected_products rows of all of ids, and counts them all.
ComputedFrom(row, ids) ==
    LET whole == AggregateRecord([pincode |-> row.pincode, city |-> row.city,
                                  store_ids |-> ids],
                                 WeekStart(today), SelectProducts(ids))
    IN  /\ row.total_stores_scanned = Len(ids)
        /\ row.top_categories = whole.top_categories
        /\ row.stockout_products = whole.stockout_products
        /\ row.demand_signals = whole.demand_signals

\* After a run of the aggregation none of whose requests fails, a pincode
\* whose active stores have products in the window has a row for the
\* current week, and the row the upsert addresses is computed from all of
\* them.
RowCoversLocality(pincode) ==
    LET after == RunAggregation(neighborhood_demand)
        ids == ActiveStoresOf(pincode)
        rows == ExistingIds(after, pincode, WeekStart(today))
    IN  SelectProducts(ids) /= <<>> =>
            rows /= <<>> /\ ComputedFrom(after[rows[1]], ids)

\* The active stores of a pincode carry one city value.
OneCity(pincode) ==
    \A s, t \in Range(ActiveStoresOf(pincode)) : stores[s].city = stores[t].city

\* C29: after an aggregation run the neighborhood_demand row of a pincode
\* for the current week is computed from the in-window detected_products
\* rows of all stores of that pincode that have scans in the window, and
\* its total_stores_scanned is the number of those stores, also when stores
\* of one pincode carry different city values.
RowCoversWholeLocality == \A pincode \in ActivePincodes : RowCoversLocality(pincode)

\* The same for the pincodes whose active stores carry one city value.
RowCoversOneCityLocality ==
    \A pincode \in ActivePincodes : OneCity(pincode) => RowCoversLocality(pincode)

\* Two active stores of one pincode carry one city value and both have
\* products in the window; the row of a run counts both.
TwoStoresOneCityWitness ==
    /\ Len(ActiveStoresOf(Pincode)) = 2
    /\ OneCity(Pincode)
    /\ \A s \in Range(ActiveStoresOf(Pincode)) : SelectProducts(<<s>>) /= <<>>
    /\ RowCoversLocality(Pincode)

\* ------------------------------------------------ the Presenter's fallback
\* The detected products whose stock level is critical or low, in the order
\* of the vision result.
UrgentProducts == SelectSeq(fn_arg.products, IsUrgent)

\* run_presenter has been called and its provider failed (the call raised,
\* or its text is no mapping).
PresenterFailed == HelperCalled("run_presenter") /\ TryRaises(fn_ret[1].reply)

\* The plan of the Presenter record: the list under priority_restocks.
Plan == fn_ret[1].value.output["priority_restocks"].l

\* Entry i of the plan is urgent product i, with the placeholder quantity
\* and cost.
PlanEntryOf(i) ==
    /\ Plan[i].product = UrgentProducts[i].name
    /\ Plan[i].current_stock = UrgentProducts[i].stock_level
    /\ Plan[i].units_to_order = 6
    /\ Plan[i].estimated_cost_inr = 150

\* C30 as stated: when the Presenter's provider fails, the Presenter record
\* exists and its plan lists every detected product whose stock level is
\* critical or low, each with quantity 6 and cost 150, none left out.
FallbackListsEveryUrgent ==
    PresenterFailed =>
        /\ fn_ret[1].value.type = "presenter"
        /\ Len(Plan) = Len(UrgentProducts)
        /\ \A i \in 1..Len(Plan) : PlanEntryOf(i)

\* C30 as amended: when the Presenter's provider fails, the Presenter
\* record exists and its plan lists the first five, in the order of the
\* vision result, of the detected products whose stock level is critical or
\* low (all of them when there are five or fewer), each with quantity 6 and
\* cost 150.
FallbackListsFirstFiveUrgent ==
    PresenterFailed =>
        /\ fn_ret[1].value.type = "presenter"
        /\ fn_ret[1].value.error
        /\ Len(Plan) = (IF Len(UrgentProducts) < 5 THEN Len(UrgentProducts) ELSE 5)
        /\ \A i \in 1..Len(Plan) : PlanEntryOf(i)

\* C30 witness: the provider raised on a shelf with seven critical or low
\* products; the plan lists the first five of them.
FallbackListsFirstFiveUrgentWitness ==
    /\ PresenterFailed
    /\ fn_ret[1].reply = Raised
    /\ Len(UrgentProducts) = 7
    /\ Len(Plan) = 5
    /\ \A i \in 1..5 : PlanEntryOf(i)

\* The provider raised on a shelf with three critical or low products; the
\* plan lists the three.
FallbackListsAllThreeWitness ==
    /\ PresenterFailed
    /\ Len(UrgentProducts) = 3
    /\ Len(Plan) = 3
    /\ \A i \in 1..3 : PlanEntryOf(i)

\* ------------------------------------------------- the vision analyzer
\* The reply's text, its fences removed, is an object of the documented
\* shape.
DocumentedShape(text) ==
    /\ JsonValid(Defenced(text))
    /\ JsonLoads(Defenced(text)).kind = "dict"
    /\ {"products", "critical_count", "low_count", "top_restock_urgent"}
          \subseteq DOMAIN JsonLoads(Defenced(text)).d

\* C31: whenever the vision analyzer's reply is malformed (not parseable,
\* or parseable but not the documented object), analyze_shelf_image does not
\* raise and returns a structure with no products and zero counts.
MalformedVisionGivesEmpty ==
    (HelperCalled("analyze_shelf_image") /\ ~DocumentedShape(fn_arg.text)) =>
        /\ fn_ret[1].value.kind = "dict"
        /\ VisionView(fn_ret[1].value.d) = _fallback_vision_data

\* The part that holds: a reply that is not parseable and has no parseable
\* object between its first "{" and its last "}" gives the fallback
\* structure.
UnparseableVisionGivesFallback ==
    (HelperCalled("analyze_shelf_image") /\ Unparseable(fn_arg.text)) =>
        /\ fn_ret[1].value = [kind |-> "dict", d |-> FallbackVisionJson]
        /\ VisionView(fn_ret[1].value.d) = _fallback_vision_data

\* A reply of words only has given the fallback structure.
GarbageVisionWitness ==
    /\ HelperCalled("analyze_shelf_image")
    /\ fn_arg.text = <<"X", "SP", "X">>
    /\ fn_ret[1].value = [kind |-> "dict", d |-> FallbackVisionJson]

\* ------------------------------------------------- what the webhook starts
\* The step of the webhook, from the inbound event to the response.
WebhookStep == pc \in {"idle", "done"} /\ path' = "whatsapp" /\ nreq' = nreq + 1

\* The event of the current request has media attached and carries its URL.
MediaWithUrl == req.num_media > 0 /\ req.media_url /= ""

\* C32: the webhook enqueues the background run exactly when the event has
\* media and carries a media URL, with the static acknowledgment as its
\* response; every other event (a greeting, any other text, media without a
\* URL) gets one of the three inline replies, starts no run and leaves the
\* scans table alone, then and later; and an event never has more than one
\* scan row.
EnqueuedExactlyOnMedia ==
    /\ [][WebhookStep =>
            /\ (pc' = "wa_start") <=> (req'.num_media > 0 /\ req'.media_url /= "")
            /\ pc' \in {"wa_start", "done"}
            /\ (pc' = "wa_start") <=> (response' = ProcessingAck)
            /\ pc' = "done" =>
                  response'.body \in {"greeting", "send a photo", "image not received"}
            /\ scans' = scans]_vars
    /\ []((path = "whatsapp" /\ ~MediaWithUrl) => pc = "done")
    /\ [][(path = "whatsapp" /\ ~MediaWithUrl /\ nreq' = nreq) => scans' = scans]_vars
    /\ [](Len(scans) <= nreq)

\* C32 witness: the run enqueued for an event with media and its URL has
\* created its one scan row.
EnqueuedExactlyOnMediaWitness ==
    /\ path = "whatsapp"
    /\ MediaWithUrl
    /\ response = ProcessingAck
    /\ pc = "wa_log"
    /\ Len(scans) = 1

\* An event with media and no URL has been answered inline; no run, no scan
\* row.
MediaWithoutUrlWitness ==
    /\ path = "whatsapp"
    /\ req.num_media > 0
    /\ req.media_url = ""
    /\ response.body = "image not received"
    /\ pc = "done"
    /\ scans = <<>>

\* -------------------------------------------------- every scan row settles
\* C33: every run that started ends, and every scan row that was created
\* gets a terminal status, completed or failed, on either entry path (the
\* case that the update writing failed raised itself, which scan_shelf
\* swallows, is left aside).
ScanEventuallyTerminal ==
    /\ \A sid \in 1..MaxRequests :
          IsScan(sid) ~>
             (swallowed \/ (IsScan(sid) /\ scans[sid].status \in {"completed", "failed"}))
    /\ (pc \notin {"idle", "done"}) ~> (pc = "done")

\* The part that holds: every run that started ends.
RunEnds == (pc \notin {"idle", "done"}) ~> (pc = "done")

\* A run of the messaging path has ended after a failure and its scan row
\* is in processing.
LeftProcessingWitness ==
    /\ path = "whatsapp"
    /\ pc = "done"
    /\ IsScan(scan_id)
    /\ exc /= ""
    /\ scans[scan_id].status = "processing"

CompletedScansOf(s) ==
    {i \in 1..Len(scans) : scans[i].store_id = s /\ scans[i].status = "completed"}

\* C35: the store row is written only by a run whose scan is already marked
\* completed, and only by the store update step; a run that fails before
\* that step leaves the row as it was, and the count never exceeds the
\* number of the store's scans that are marked completed.
StoreWrittenOnlyAfterCompletion ==
    /\ [][stores' /= stores =>
            /\ pc \in {"ss_store", "wa_store"}
            /\ scan_id /= 0
            /\ scans[scan_id].status = "completed"
            /\ scans' = scans
            /\ \A s \in DOMAIN stores :
                  stores'[s] /= stores[s] => s = scans[scan_id].store_id]_vars
    /\ [](\A s \in DOMAIN stores :
            stores[s].total_scans <= Cardinality(CompletedScansOf(s)))

\* C35 witness: a direct request has been answered with an error, its scan
\* is marked failed, and the store row is the one written at registration.
StoreWrittenOnlyAfterCompletionWitness ==
    /\ path = "direct" /\ pc = "done" /\ response.status = 500
    /\ Len(scans) = 1 /\ scans[1].status = "failed"
    /\ stores[StoreId] = RegisteredStore

\* A run of the messaging path has updated the store row after completing
\* its scan.
StoreCountedWitness ==
    /\ path = "whatsapp" /\ pc = "wa_neighborhood"
    /\ scans[scan_id].status = "completed"
    /\ stores[store.id].total_scans = 1

\* ---------------------------------------------------------------- C36
\* C36: the caller of the direct scan request receives the result payload
\* if and only if the scan row of the request ends completed; after an error
\* response no scan row created by the request is left completed.
PayloadIffCompleted ==
    (path = "direct" /\ pc = "done") =>
        (response.status = 200 <=>
            (IsScan(scan_id) /\ scans[scan_id].status = "completed"))

\* The caller has the payload only when the scan row is completed.
PayloadOnlyWhenCompleted ==
    (path = "direct" /\ pc = "done" /\ response.status = 200) =>
        (IsScan(scan_id) /\ scans[scan_id].status = "completed")

\* The store update raised after the completion update, the update that
\* marks the scan failed raised too, and the caller was answered with an
\* error while the scan row stays completed.
ErrorWithCompletedScanWitness ==
    /\ path = "direct" /\ pc = "done" /\ response.status = 500
    /\ swallowed
    /\ IsScan(scan_id) /\ scans[scan_id].status = "completed"
    /\ stores[StoreId] = RegisteredStore

\* ---------------------------------------------------------------- C37
\* C37: the background task sends at most one message for an acknowledged
\* media-bearing event; a run that has sent the report (the voice note or
\* the text fallback) never also sends the apology.
NoApologyAfterReport ==
    [][(path = "whatsapp" /\ outbox' /= outbox /\ outbox /= <<>>) =>
          ~(outbox[Len(outbox)] = Report /\ outbox'[Len(outbox')] = Apology)]_vars

\* The report was sent, the insert of the outbound log row raised, and the
\* apology was sent after the report.
ApologyAfterReportWitness ==
    /\ path = "whatsapp" /\ pc = "done" /\ exc = DbError
    /\ Len(outbox) = 2
    /\ outbox[1] = Report /\ outbox[2] = Apology
    /\ scans[scan_id].status = "completed"

\* ---------------------------------------------------------------- C38
\* C38: on the messaging path the report (the voice note or the text
\* fallback) is sent only after the scan row has been marked completed and
\* the store's counters have been updated; every other message of the task
\* is the prompt to register or the apology, so no report is sent for a scan
\* in status processing or failed.
ReportOnlyAfterCompletion ==
    [][outbox' /= outbox =>
          /\ path = "whatsapp"
          /\ outbox' = Append(outbox, outbox'[Len(outbox')])
          /\ IF pc = "wa_send"
             THEN /\ outbox'[Len(outbox')] = Report
                  /\ IsScan(scan_id)
                  /\ scans[scan_id].status = "completed"
                  /\ stores[store.id] = UpdatedStore(stores[store.id], store, vision_data)
             ELSE outbox'[Len(outbox')] \in {RegisterPrompt, Apology}]_vars

\* C38 witness: the report has just been sent; the scan is completed and
\* the store row carries the new count.
ReportOnlyAfterCompletionWitness ==
    /\ path = "whatsapp" /\ pc = "wa_log_outbound"
    /\ outbox = <<Report>>
    /\ scans[scan_id].status = "completed"
    /\ stores[store.id].total_scans = store.total_scans + 1

\* ---------------------------------------------------------------- C39
\* The stores of the locality with the pincode pin.
StoresOfLocality(pin) == {s \in DOMAIN stores : stores[s].pincode = pin}

\* C39: in every reachable state the contributing-store count of a
\* neighborhood demand row is at most the number of distinct stores of the
\* row's locality.
StoreCountWithinLocality ==
    \A i \in 1..Len(neighborhood_demand) :
        neighborhood_demand[i].total_stores_scanned
            <= Cardinality(StoresOfLocality(neighborhood_demand[i].pincode))

\* One scan of the only store of its locality has raised the count of the
\* row written at registration from 1 to 2.
CountAboveStoresWitness ==
    /\ pc = "done" /\ path = "direct" /\ response.status = 200
    /\ Cardinality(StoresOfLocality(Pincode)) = 1
    /\ neighborhood_demand[LatestDemand(Pincode)].total_stores_scanned = 2
====
